---- MODULE Spec2Model ----
(***************************************************************************)
(* Discretisation of a pybamm model: pybamm/discretisations/               *)
(* discretisation.py.  A Discretisation lays the unknowns of a model out   *)
(* in one flat state vector (set_variable_slices), lowers the boundary     *)
(* conditions, initial conditions, outputs, equations and events           *)
(* (process_symbol), concatenates them in slice order and builds the mass  *)
(* matrix (process_model).                                                 *)
(***************************************************************************)
EXTENDS Integers, Sequences, FiniteSets, TLC

VARIABLES
    disc,     \* the Discretisation object: y_slices, bounds, bcs, cache, ...
    models,   \* the models the caller holds, by identity
    copy,     \* the model last returned by an inplace=False call (None if
              \* none), with the identity of the model it was copied from
    last      \* the last process_model call: arguments, locals, outcome

vars == <<disc, models, copy, last>>

(***************************************************************************)
(* Bounds of the model.                                                    *)
(***************************************************************************)
MeshPts == 2       \* points of the smallest submesh
MaxUnknowns == 2   \* longest key list of the layout family of models

(***************************************************************************)
(* Small helpers.                                                          *)
(***************************************************************************)
None == <<>>
Some(v) == <<v>>

\* "x = v" followed by the statements e that use x: Let([x \in {v} |-> e])
Let(f) == f[CHOOSE x \in DOMAIN f : TRUE]

Range(s) == {s[i] : i \in 1..Len(s)}

RECURSIVE SumSeq(_)
SumSeq(s) == IF s = <<>> THEN 0 ELSE Head(s) + SumSeq(Tail(s))

RECURSIVE Flatten(_)
Flatten(ss) == IF ss = <<>> THEN <<>> ELSE Head(ss) \o Flatten(Tail(ss))

Repeat(v, n) == [i \in 1..n |-> v]

\* the index of the first element of s equal to v (list.index), 0 if absent
IndexOf(s, v) ==
    IF \E i \in 1..Len(s) : s[i] = v
    THEN CHOOSE i \in 1..Len(s) : s[i] = v /\ \A j \in 1..(i - 1) : s[j] # v
    ELSE 0

\* the sequences of distinct elements of S of length n
RECURSIVE DistinctSeqs(_, _)
DistinctSeqs(S, n) ==
    IF n = 0 THEN {<<>>}
    ELSE UNION {{Append(s, x) : x \in S \ Range(s)} : s \in DistinctSeqs(S, n - 1)}

Permutations1(s) ==
    {[i \in 1..Len(s) |-> s[p[i]]] : p \in DistinctSeqs(1..Len(s), Len(s))}

(***************************************************************************)
(* The mesh: one submesh per domain.                                       *)
(***************************************************************************)
NE == "negative electrode"
SEP == "separator"
PE == "positive electrode"
CC == "current collector"
PART == "negative particle"

Domains == {NE, SEP, PE, CC, PART}

\* mesh[dom].npts_for_broadcast_to_nodes
npts_for_broadcast_to_nodes(dom) ==
    CASE dom = NE -> MeshPts + 1
      [] dom = SEP -> MeshPts
      [] dom = PE -> MeshPts + 1
      [] dom = CC -> MeshPts
      [] dom = PART -> MeshPts

\* mesh[dom].coord_sys
coord_sys(dom) == IF dom = PART THEN "spherical polar" ELSE "cartesian"

(***************************************************************************)
(* The variables a model can declare.  A variable is identified by its     *)
(* name (pybamm symbols are equal when name and domains are equal).        *)
(***************************************************************************)
Var(kind, domain, secondary, children, lo, hi) ==
    [kind |-> kind, domain |-> domain, secondary |-> secondary,
     children |-> children, bounds |-> <<lo, hi>>]

VarTable ==
    [Q |-> Var("Variable", <<>>, <<>>, <<>>, 0 - 5, 5),
     c_n |-> Var("Variable", <<NE>>, <<>>, <<>>, 0, 3),
     c_p |-> Var("Variable", <<PE>>, <<>>, <<>>, 0, 4),
     phi |-> Var("Variable", <<CC>>, <<>>, <<>>, 0 - 5, 5),
     c_s_n |-> Var("Variable", <<PART>>, <<NE>>, <<>>, 0, 1),
     c_e |-> Var("ConcatenationVariable", <<NE, SEP, PE>>, <<>>,
                 <<"c_e_n", "c_e_s", "c_e_p">>, 0, 9),
     c_e_n |-> Var("Variable", <<NE>>, <<>>, <<>>, 0, 9),
     c_e_s |-> Var("Variable", <<SEP>>, <<>>, <<>>, 0, 9),
     c_e_p |-> Var("Variable", <<PE>>, <<>>, <<>>, 0, 9),
     T |-> Var("ConcatenationVariable", <<NE, SEP>>, <<CC>>,
               <<"T_n", "T_s">>, 0, 7),
     T_n |-> Var("Variable", <<NE>>, <<CC>>, <<>>, 0, 7),
     T_s |-> Var("Variable", <<SEP>>, <<CC>>, <<>>, 0, 7)]

VarNames == DOMAIN VarTable

\* the variables a model declares as unknowns (keys of rhs and algebraic)
Unknowns == {"Q", "c_n", "c_p", "phi", "c_s_n", "c_e", "T"}

isConcatenationVariable(v) == VarTable[v].kind = "ConcatenationVariable"

(***************************************************************************)
(* Slices of the state vector.                                             *)
(***************************************************************************)
slice(start, stop) == [start |-> start, stop |-> stop]

Width(sl) == sl.stop - sl.start

\* the indices a slice selects, 0-based as in numpy
Indices(sl) == sl.start..(sl.stop - 1)

\* y_slices[key].append(sl) on a defaultdict(list)
AppendSlice(ys, key, sl) ==
    [k \in DOMAIN ys \cup {key} |->
        IF k # key THEN ys[k]
        ELSE IF key \in DOMAIN ys THEN Append(ys[key], sl) ELSE <<sl>>]

(***************************************************************************)
(* Sizes.                                                                  *)
(***************************************************************************)
\* spatial_method._get_auxiliary_domain_repeats(domains): the number of
\* points of the auxiliary (secondary) domains, 1 without any
_get_auxiliary_domain_repeats(v) ==
    IF VarTable[v].secondary = <<>> THEN 1
    ELSE SumSeq([i \in 1..Len(VarTable[v].secondary) |->
                    npts_for_broadcast_to_nodes(VarTable[v].secondary[i])])

\* the spatial methods a variable's size needs: spatial_methods[domain[0]]
NeedsMethod(v) ==
    IF VarTable[v].domain = <<>> THEN {} ELSE {VarTable[v].domain[1]}

\* variant: the auxiliary repeats are left out of the size
_get_variable_size_without_repeats(v) ==
    IF VarTable[v].domain = <<>> THEN 1
    ELSE SumSeq([i \in 1..Len(VarTable[v].domain) |->
                    npts_for_broadcast_to_nodes(VarTable[v].domain[i])])

_get_variable_size(v) ==
    IF VarTable[v].domain = <<>> THEN 1
    ELSE LET repeats == _get_auxiliary_domain_repeats(v)
             dom == VarTable[v].domain
         IN  SumSeq([i \in 1..Len(dom) |->
                        npts_for_broadcast_to_nodes(dom[i]) * repeats])

(***************************************************************************)
(* Discretisation.set_variable_slices                                      *)
(***************************************************************************)
\* the points of a child of a concatenation: the loop
\* "for domain_mesh in mesh: end += domain_mesh.npts_for_broadcast_to_nodes"
ChildPoints(child) ==
    SumSeq([i \in 1..Len(VarTable[child].domain) |->
               npts_for_broadcast_to_nodes(VarTable[child].domain[i])])

\* variant: "start_ = end" is left out, every slice of a child starts where
\* the concatenation starts
RECURSIVE set_child_slices_same_start(_, _, _, _)
set_child_slices_same_start(children, ys, start_, end) ==
    IF children = <<>> THEN [y_slices |-> ys, end |-> end]
    ELSE LET child == Head(children)
             end2 == end + ChildPoints(child)
         IN  set_child_slices_same_start(Tail(children),
                                         AppendSlice(ys, child, slice(start_, end2)),
                                         start_, end2)

\* the loops over range(sec_points) and over the children, flattened:
\* children is the list of children repeated sec_points times
RECURSIVE set_child_slices(_, _, _, _)
set_child_slices(children, ys, start_, end) ==
    IF children = <<>> THEN [y_slices |-> ys, end |-> end]
    ELSE LET child == Head(children)
             end2 == end + ChildPoints(child)
         IN  set_child_slices(Tail(children),
                              AppendSlice(ys, child, slice(start_, end2)),
                              end2, end2)

\* variant: "start = end" at the end of the iteration is left out
add_variable_slice_same_start(acc, variable, y_slices, end) ==
    [y_slices |-> AppendSlice(y_slices, variable, slice(acc.start, end)),
     lower_bounds |-> acc.lower_bounds
                        \o Repeat(VarTable[variable].bounds[1], end - acc.start),
     upper_bounds |-> acc.upper_bounds
                        \o Repeat(VarTable[variable].bounds[2], end - acc.start),
     start |-> acc.start,
     end |-> end]

\* lines 302-309: the slice and the bounds of the variable, "start = end"
add_variable_slice(acc, variable, y_slices, end) ==
    [y_slices |-> AppendSlice(y_slices, variable, slice(acc.start, end)),
     lower_bounds |-> acc.lower_bounds
                        \o Repeat(VarTable[variable].bounds[1], end - acc.start),
     upper_bounds |-> acc.upper_bounds
                        \o Repeat(VarTable[variable].bounds[2], end - acc.start),
     start |-> end,
     end |-> end]

\* one iteration of the loop over the variables
set_variable_slice(acc, variable) ==
    IF isConcatenationVariable(variable)
    THEN Let([inner \in {set_child_slices(
                 Flatten(Repeat(VarTable[variable].children,
                                _get_auxiliary_domain_repeats(variable))),
                 acc.y_slices, acc.start, acc.end)} |->
                 add_variable_slice(acc, variable, inner.y_slices, inner.end)])
    ELSE add_variable_slice(acc, variable, acc.y_slices,
                            acc.end + _get_variable_size(variable))

RECURSIVE set_variable_slices_loop(_, _)
set_variable_slices_loop(variables, acc) ==
    IF variables = <<>> THEN acc
    ELSE set_variable_slices_loop(Tail(variables),
                                  set_variable_slice(acc, Head(variables)))

\* the y_slices, y_slices_explicit and bounds that set_variable_slices stores
set_variable_slices(variables) ==
    Let([acc \in {set_variable_slices_loop(
            variables,
            [y_slices |-> <<>>, lower_bounds |-> <<>>,
             upper_bounds |-> <<>>, start |-> 0, end |-> 0])} |->
            [y_slices |-> acc.y_slices,
             y_slices_explicit |-> acc.y_slices,
             bounds |-> <<acc.lower_bounds, acc.upper_bounds>>]])

\* set_variable_slices raises KeyError at spatial_methods[variable.domain[0]]
\* when a variable's first domain has no spatial method
set_variable_slices_raises(spatial_methods, variables) ==
    \E i \in 1..Len(variables) : ~(NeedsMethod(variables[i]) \subseteq spatial_methods)

(***************************************************************************)
(* Python dicts keep insertion order: a dict is a sequence of items.       *)
(***************************************************************************)
Item(key, val) == [key |-> key, val |-> val]

Keys(d) == [i \in 1..Len(d) |-> d[i].key]

Values(d) == [i \in 1..Len(d) |-> d[i].val]

Has(d, key) == \E i \in 1..Len(d) : d[i].key = key

Get(d, key) == d[IndexOf(Keys(d), key)].val

\* d[key] = val: an existing key keeps its position
Put(d, key, val) ==
    IF Has(d, key)
    THEN [i \in 1..Len(d) |-> IF d[i].key = key THEN Item(key, val) ELSE d[i]]
    ELSE Append(d, Item(key, val))

\* d.pop(key), the dict that is left
Pop(d, key) == SelectSeq(d, LAMBDA it : it.key # key)

\* d.update(e)
RECURSIVE Update(_, _)
Update(d, e) ==
    IF e = <<>> THEN d ELSE Update(Put(d, Head(e).key, Head(e).val), Tail(e))

(***************************************************************************)
(* Expression nodes of a model (before discretisation).                    *)
(***************************************************************************)
Scalar(value) == [k |-> "Scalar", value |-> value]

Vector(entries) == [k |-> "Vector", entries |-> entries]

Variable(name) == [k |-> "Variable", name |-> name]

\* pybamm.FullBroadcast(child, broadcast_domains=key.domains)
FullBroadcast(child, key) ==
    [k |-> "FullBroadcast", child |-> child, broadcast_domains |-> key]

\* a boundary operator (BoundaryValue, BoundaryGradient) on a side
BoundaryValue(child, side) == [k |-> "BoundaryValue", child |-> child, side |-> side]

\* expected_size 0 stands for None
InputParameter(name, domain, expected_size) ==
    [k |-> "InputParameter", name |-> name, domain |-> domain,
     expected_size |-> expected_size]

\* symbol.domain; a binary operator has the domain of the child that has one
RECURSIVE DomainOf(_)
DomainOf(symbol) ==
    CASE symbol.k = "Variable" -> VarTable[symbol.name].domain
      [] symbol.k = "FullBroadcast" -> VarTable[symbol.broadcast_domains].domain
      [] symbol.k = "InputParameter" -> symbol.domain
      [] symbol.k = "Multiplication" ->
            IF DomainOf(symbol.left) # <<>> THEN DomainOf(symbol.left)
            ELSE DomainOf(symbol.right)
      [] OTHER -> <<>>

\* np.prod(eqn.shape_for_testing) == 1: the node evaluates to one number
EvaluatesToNumber(symbol) ==
    CASE symbol.k = "Scalar" -> TRUE
      [] symbol.k = "Vector" -> Len(symbol.entries) = 1
      [] symbol.k = "BoundaryValue" -> TRUE
      [] OTHER -> DomainOf(symbol) = <<>>

\* the points of a list of domains, times the auxiliary repeats of variable v
DomainSize(domain, v) ==
    SumSeq([i \in 1..Len(domain) |->
               npts_for_broadcast_to_nodes(domain[i])
                   * _get_auxiliary_domain_repeats(v)])

(***************************************************************************)
(* Lowered (discretised) nodes.                                            *)
(***************************************************************************)
StateVector(y_slices) == [k |-> "StateVector", y_slices |-> y_slices]

ExternalVariable(name, size) == [k |-> "ExternalVariable", name |-> name, size |-> size]

Index(child, sl) == [k |-> "Index", child |-> child, slice |-> sl]

Multiplication(left, right) == [k |-> "Multiplication", left |-> left, right |-> right]

Max(a, b) == IF a >= b THEN a ELSE b

\* the number of rows of a lowered node (shape[0])
RECURSIVE Size(_)
Size(node) ==
    CASE node.k = "Scalar" -> 1
      [] node.k = "Vector" -> Len(node.entries)
      [] node.k = "StateVector" ->
            SumSeq([i \in 1..Len(node.y_slices) |-> Width(node.y_slices[i])])
      [] node.k = "ExternalVariable" -> node.size
      [] node.k = "Index" -> Width(node.slice)
      [] node.k = "Multiplication" -> Max(Size(node.left), Size(node.right))
      [] node.k \in {"DomainConcatenation", "NumpyConcatenation", "SparseStack"} ->
            SumSeq([i \in 1..Len(node.children) |-> Size(node.children[i])])
      [] node.k = "InternalNeumann" -> 1
      [] node.k = "Jacobian" -> Size(node.eqn)
      [] node.k = "BoundaryValue" -> 1
      [] node.k = "InputParameter" ->
            IF node.expected_size = 0 THEN 1 ELSE node.expected_size

\* a lowered node that has a value without a state vector or inputs
RECURSIVE IsConstant(_)
IsConstant(node) ==
    CASE node.k \in {"Scalar", "Vector"} -> TRUE
      [] node.k = "Multiplication" -> IsConstant(node.left) /\ IsConstant(node.right)
      [] node.k = "NumpyConcatenation" ->
            \A i \in 1..Len(node.children) : IsConstant(node.children[i])
      [] OTHER -> FALSE

\* node.evaluate(t=0) of a constant lowered node, as a numpy array would
\* broadcast it
RECURSIVE Evaluate(_)
Evaluate(node) ==
    CASE node.k = "Scalar" -> <<node.value>>
      [] node.k = "Vector" -> node.entries
      [] node.k = "Multiplication" ->
            LET l == Evaluate(node.left)
                r == Evaluate(node.right)
            IN  [i \in 1..Max(Len(l), Len(r)) |->
                    (IF Len(l) = 1 THEN l[1] ELSE l[i])
                        * (IF Len(r) = 1 THEN r[1] ELSE r[i])]
      [] node.k = "NumpyConcatenation" ->
            Flatten([i \in 1..Len(node.children) |-> Evaluate(node.children[i])])

\* discretised_symbol.test_shape(): the shape self-check of a lowered node,
\* which fails where the two operands of a binary operator have widths
\* that do not agree and neither of which is 1
RECURSIVE test_shape(_)
test_shape(node) ==
    IF node.k # "Multiplication" THEN ""
    ELSE IF test_shape(node.left) # "" \/ test_shape(node.right) # ""
    THEN "ShapeError"
    ELSE IF Size(node.left) # Size(node.right)
            /\ Size(node.left) # 1 /\ Size(node.right) # 1
    THEN "ShapeError"
    ELSE ""

\* eqn.has_symbol_of_classes(pybamm.InputParameter)
RECURSIVE HasInputParameter(_)
HasInputParameter(node) ==
    CASE node.k = "InputParameter" -> TRUE
      [] node.k = "Multiplication" ->
            HasInputParameter(node.left) \/ HasInputParameter(node.right)
      [] node.k = "BoundaryValue" -> HasInputParameter(node.child)
      [] OTHER -> FALSE

(***************************************************************************)
(* Discretisation.check_tab_conditions.  The submesh of the current        *)
(* collector is a SubMesh1D; tabs is its mesh.tabs.  The dict bcs          *)
(* ({side: (equation, type)}) is changed in place and returned.            *)
(***************************************************************************)
Tabs(negative, positive) ==
    [tab \in {"negative tab", "positive tab"} |->
        IF tab = "negative tab" THEN negative ELSE positive]

\* bcs[side] = bcs.pop(tab); a missing tab raises KeyError
MoveSide(r, tab, side) ==
    IF r.err # "" THEN r
    ELSE IF ~Has(r.bcs, tab) THEN [err |-> "KeyError", bcs |-> r.bcs]
    ELSE [err |-> "", bcs |-> Put(Pop(r.bcs, tab), side, Get(r.bcs, tab))]

\* variant: the negative tab is taken to be at "left" and the positive tab
\* at "right", whatever the mesh says
MoveTabToItsUsualSide(r, tabs, tab) ==
    IF r.err = "" /\ Has(r.bcs, tab)
    THEN MoveSide(r, tab, IF tab = "negative tab" THEN "left" ELSE "right")
    ELSE r

\* "if any(tab in side for side in bcs.keys()): bcs[mesh.tabs[tab]] = bcs.pop(tab)"
MoveTab(r, tabs, tab) ==
    IF r.err = "" /\ Has(r.bcs, tab) THEN MoveSide(r, tab, tabs[tab]) ELSE r

check_tab_conditions(tabs, domain, bcs) ==
    IF domain = <<>> THEN [err |-> "IndexError", bcs |-> bcs]
    ELSE IF domain[1] # CC
    THEN [err |-> "ModelError: tabs only in the current collector", bcs |-> bcs]
    ELSE Let([moved \in {MoveTab(MoveTab([err |-> "", bcs |-> bcs], tabs, "negative tab"),
                     tabs, "positive tab")} |->
                 IF moved.err # "" THEN moved
                 ELSE IF Has(moved.bcs, "left") /\ Has(moved.bcs, "right")
                 THEN moved
                 ELSE IF Has(moved.bcs, "left")
                 THEN MoveSide(moved, "no tab", "right")
                 ELSE MoveSide(moved, "no tab", "left")])

\* any("tab" in side for side in bcs.keys())
HasTabSide(bcs) ==
    \E i \in 1..Len(bcs) : bcs[i].key \in {"negative tab", "positive tab", "no tab"}

(***************************************************************************)
(* Discretisation.process_symbol and _process_symbol.                      *)
(*   d   the Discretisation (y_slices, external_variables, mesh, methods)  *)
(*   st  what lowering changes: the cache _discretised_symbols and bcs,    *)
(*       with the history of the lowerings since the cache was emptied     *)
(* The result carries the lowered node (out), the node passed in as        *)
(* lowering left it (symbol), and the exception raised (err).              *)
(***************************************************************************)
\* the history kept with an empty cache: the nodes _process_symbol has
\* lowered (the n-th of them built object n), the object stored for each
\* cached node, and the node and object of every return of process_symbol;
\* assignments counts the assignments to bcs since set_variable_slices, and
\* under holds, for object n, that count and the boundary conditions at the
\* time the object was built; the objects 1..earlier of the history were
\* built by earlier runs of process_model; before is the part of the
\* history that the last assignment to bcs closed
NoLowerings ==
    [executed |-> <<>>, stored |-> <<>>, returned |-> <<>>, under |-> <<>>,
     assignments |-> 0, earlier |-> 0,
     before |-> [returned |-> <<>>, earlier |-> 0]]

Ok(st, out, symbol) == [err |-> "", st |-> st, out |-> out, symbol |-> symbol]

Raise(err, st, symbol) == [err |-> err, st |-> st, out |-> None, symbol |-> symbol]

\* the domains of an input parameter have no auxiliary repeats here
InputSize(domain) ==
    SumSeq([i \in 1..Len(domain) |-> npts_for_broadcast_to_nodes(domain[i])])

\* "any(symbol == var for var in self.external_variables.values())"
IsExternal(d, name) ==
    \E i \in 1..Len(d.external_variables) : d.external_variables[i].val = name

\* lines 841-849: the spatial method of the node's domain, and the tab
\* conditions of the first key of self.bcs
Prelude(d, st, symbol) ==
    Let([domain \in {DomainOf(symbol)} |->
    IF domain = <<>> THEN Ok(st, None, symbol)
    ELSE IF domain[1] \notin d.spatial_methods THEN Raise("KeyError", st, symbol)
    ELSE IF st.bcs # <<>> /\ HasTabSide(st.bcs[1].val)
    THEN Let([r \in {check_tab_conditions(d.tabs, domain, st.bcs[1].val)} |->
         Let([st2 \in {[st EXCEPT !.bcs[1].val = r.bcs]} |->
         IF r.err # "" THEN Raise(r.err, st2, symbol) ELSE Ok(st2, None, symbol)])])
    ELSE Ok(st, None, symbol)])

RECURSIVE process_symbol(_, _, _)
RECURSIVE _process_symbol(_, _, _)

\* process_symbol over a list of nodes, left to right; out and symbol are
\* the lists of the lowered nodes and of the nodes as lowering left them
RECURSIVE process_symbols(_, _, _)
process_symbols(d, st, symbols) ==
    IF symbols = <<>> THEN Ok(st, <<>>, <<>>)
    ELSE Let([h \in {process_symbol(d, st, Head(symbols))} |->
         IF h.err # "" THEN Raise(h.err, h.st, <<h.symbol>> \o Tail(symbols))
         ELSE Let([t \in {process_symbols(d, h.st, Tail(symbols))} |->
              [err |-> t.err, st |-> t.st,
               out |-> IF t.err # "" THEN None ELSE <<h.out>> \o t.out,
               symbol |-> <<h.symbol>> \o t.symbol]])])

\* spatial_method.concatenation(new_children)
DomainConcatenation(children) == [k |-> "DomainConcatenation", children |-> children]

\* lines 984-1018: an external variable, whole or as a part of its parent
process_external(st, symbol, key) ==
    IF key.parent = None
    THEN Ok(st, ExternalVariable(symbol.name, _get_variable_size(symbol.name)),
            symbol)
    ELSE Ok(st, Index(ExternalVariable(key.name,
                                       _get_variable_size(key.parent[1].var)),
                      slice(key.parent[1].start, key.parent[1].end)),
            symbol)

\* the lowering of a Variable node (lines 982-1025) and of a
\* ConcatenationVariable node (lines 1030-1033)
process_variable(d, st, symbol) ==
    IF isConcatenationVariable(symbol.name)
    THEN Let([r \in {process_symbols(d, st,
                 [i \in 1..Len(VarTable[symbol.name].children) |->
                     Variable(VarTable[symbol.name].children[i])])} |->
                 IF r.err # "" THEN Raise(r.err, r.st, symbol)
                 ELSE Ok(r.st, DomainConcatenation(r.out), symbol)])
    ELSE IF IsExternal(d, symbol.name)
    THEN process_external(
             st, symbol,
             d.external_variables[IndexOf(Values(d.external_variables),
                                          symbol.name)].key)
    ELSE IF symbol.name \notin DOMAIN d.y_slices
    THEN Raise("ModelError: No key set for variable", st, symbol)
    ELSE Ok(st, StateVector(d.y_slices[symbol.name]), symbol)

\* lines 880-970 after the child is lowered: c is the lowered child, left
\* the node with its child as lowering left it
lower_unary(d, symbol, child, c, left) ==
    IF DomainOf(child) # <<>> /\ DomainOf(child)[1] \notin d.spatial_methods
    THEN Raise("KeyError", c.st, left)
    ELSE IF symbol.k = "FullBroadcast"
    THEN Ok(c.st,
            Multiplication(
                c.out,
                Vector(Repeat(1, IF DomainOf(symbol) = <<>> THEN 1
                                 ELSE DomainSize(DomainOf(symbol),
                                                 symbol.broadcast_domains)))),
            left)
    ELSE \* a boundary operator
         IF symbol.side \in {"negative tab", "positive tab"}
         THEN IF DomainOf(child) = <<>> THEN Raise("IndexError", c.st, left)
              ELSE IF DomainOf(child)[1] # CC THEN Raise("AttributeError", c.st, left)
              ELSE Ok(c.st, BoundaryValue(c.out, d.tabs[symbol.side]),
                      [left EXCEPT !.side = d.tabs[symbol.side]])
         ELSE Ok(c.st, BoundaryValue(c.out, symbol.side), left)

\* the lowering of a unary operator (lines 880-970)
process_unary(d, st, symbol) ==
    Let([c \in {process_symbol(d, st, symbol.child)} |->
    IF c.err # "" THEN Raise(c.err, c.st, [symbol EXCEPT !.child = c.symbol])
    ELSE lower_unary(d, symbol, symbol.child, c,
                     [symbol EXCEPT !.child = c.symbol])])

\* lines 1035-1042: the expected size of an input parameter is set
stamp_expected_size(symbol) ==
    IF symbol.expected_size # 0 THEN symbol
    ELSE [symbol EXCEPT !.expected_size =
              IF symbol.domain # <<>> THEN InputSize(symbol.domain) ELSE 0]

\* lines 851-863: a binary operator, whose children are lowered first; a
\* constant one without a domain is replaced by its value
process_binary(d, st, symbol) ==
    Let([l \in {process_symbol(d, st, symbol.left)} |->
    IF l.err # "" THEN Raise(l.err, l.st, [symbol EXCEPT !.left = l.symbol])
    ELSE Let([r \in {process_symbol(d, l.st, symbol.right)} |->
    Let([left \in {[symbol EXCEPT !.left = l.symbol, !.right = r.symbol]} |->
    IF r.err # "" THEN Raise(r.err, r.st, left)
    ELSE Let([product \in {Multiplication(l.out, r.out)} |->
         IF DomainOf(symbol) = <<>> /\ IsConstant(product)
         THEN IF test_shape(product) # "" THEN Raise("ValueError", r.st, left)
              ELSE IF Size(product) = 1
              THEN Ok(r.st, Scalar(Evaluate(product)[1]), left)
              ELSE Ok(r.st, Vector(Evaluate(product)), left)
         ELSE Ok(r.st, product, left)])])])])

_process_symbol(d, st, symbol) ==
    Let([p \in {Prelude(d, st, symbol)} |->
    IF p.err # "" THEN p
    ELSE CASE symbol.k = "Multiplication" -> process_binary(d, p.st, symbol)
           [] symbol.k \in {"FullBroadcast", "BoundaryValue"} ->
                process_unary(d, p.st, symbol)
           [] symbol.k = "Variable" -> process_variable(d, p.st, symbol)
           [] symbol.k = "InputParameter" ->
                Let([stamped \in {stamp_expected_size(symbol)} |->
                    Ok(p.st, stamped, stamped)])
           [] OTHER -> Ok(p.st, symbol, symbol)])

\* the cache after _process_symbol has lowered symbol to out: the object
\* it built is the next one of the history
stored(st, symbol, out) ==
    [st EXCEPT !.cache = Put(st.cache, symbol, out),
               !.lowerings =
                   [executed |-> Append(@.executed, symbol),
                    stored |-> Put(@.stored, symbol, Len(@.executed) + 1),
                    returned |-> @.returned,
                    under |-> Append(@.under, [assignments |-> @.assignments,
                                               bcs |-> st.bcs]),
                    assignments |-> @.assignments,
                    earlier |-> @.earlier,
                    before |-> @.before]]

\* the history after process_symbol has returned the object in the cache
\* for symbol
returning(st, symbol) ==
    [st EXCEPT !.lowerings.returned =
         Append(@, [symbol |-> symbol,
                    obj |-> Get(st.lowerings.stored, symbol),
                    assignments |-> st.lowerings.assignments])]

\* lines 820-836: the result r of _process_symbol is stored, then checked
\* for its shape, then returned
store_and_test_shape(st, symbol, r) ==
    IF r.err # "" THEN r
    ELSE Let([st2 \in {stored(r.st, symbol, r.out)} |->
         IF test_shape(r.out) # "" THEN Raise(test_shape(r.out), st2, r.symbol)
         ELSE [r EXCEPT !.st = returning(st2, symbol)]])

\* variant: every call lowers the node anew
process_symbol_uncached(d, st, symbol) ==
    store_and_test_shape(st, symbol, _process_symbol(d, st, symbol))

\* lines 817-836: "try: return self._discretised_symbols[symbol]", and on a
\* KeyError the lowering, whose result is stored and then checked
process_symbol(d, st, symbol) ==
    IF Has(st.cache, symbol)
    THEN Ok(returning(st, symbol), Get(st.cache, symbol), symbol)
    ELSE store_and_test_shape(st, symbol, _process_symbol(d, st, symbol))

(***************************************************************************)
(* Discretisation.process_dict: lowers a {key: equation} dict.  out is the *)
(* lowered dict, symbol the dict passed in as lowering left its nodes.     *)
(* The keys of model.variables are strings, all other keys are variables.  *)
(***************************************************************************)
\* the rest of the dict after the lowering h of the first equation; left is
\* the first equation as lowering left it
RECURSIVE process_dict(_, _, _, _)
process_dict_rest(d, var_eqn_dict, keys_are_str, eqn_key, h, left) ==
    IF h.err # ""
    THEN Raise(h.err, h.st, <<Item(eqn_key, left)>> \o Tail(var_eqn_dict))
    ELSE Let([t \in {process_dict(d, h.st, Tail(var_eqn_dict), keys_are_str)} |->
         [err |-> t.err, st |-> t.st,
          out |-> IF t.err # "" THEN None ELSE <<Item(eqn_key, h.out)>> \o t.out,
          symbol |-> <<Item(eqn_key, left)>> \o t.symbol]])

\* variant: every equation is lowered as it is given
process_dict_without_broadcast(d, st, var_eqn_dict, keys_are_str) ==
    IF var_eqn_dict = <<>> THEN Ok(st, <<>>, <<>>)
    ELSE Let([h \in {process_symbol(d, st, Head(var_eqn_dict).val)} |->
            process_dict_rest(d, var_eqn_dict, keys_are_str,
                              Head(var_eqn_dict).key, h, h.symbol)])

\* variant: a number is also broadcast where the key is the name of a
\* variable over a domain
process_dict_with_outputs_broadcast(d, st, var_eqn_dict, keys_are_str) ==
    IF var_eqn_dict = <<>> THEN Ok(st, <<>>, <<>>)
    ELSE Let([broadcast \in {/\ EvaluatesToNumber(Head(var_eqn_dict).val)
                             /\ Head(var_eqn_dict).key \in DOMAIN VarTable} |->
    Let([h \in {process_symbol(d, st, IF broadcast
                              THEN FullBroadcast(Head(var_eqn_dict).val,
                                                 Head(var_eqn_dict).key)
                              ELSE Head(var_eqn_dict).val)} |->
            process_dict_rest(d, var_eqn_dict, keys_are_str,
                              Head(var_eqn_dict).key, h,
                              IF broadcast THEN h.symbol.child ELSE h.symbol)])])

process_dict(d, st, var_eqn_dict, keys_are_str) ==
    IF var_eqn_dict = <<>> THEN Ok(st, <<>>, <<>>)
    ELSE Let([broadcast \in {EvaluatesToNumber(Head(var_eqn_dict).val) /\ ~keys_are_str} |->
    Let([h \in {process_symbol(d, st, IF broadcast
                              THEN FullBroadcast(Head(var_eqn_dict).val,
                                                 Head(var_eqn_dict).key)
                              ELSE Head(var_eqn_dict).val)} |->
            process_dict_rest(d, var_eqn_dict, keys_are_str,
                              Head(var_eqn_dict).key, h,
                              IF broadcast THEN h.symbol.child ELSE h.symbol)])])

(***************************************************************************)
(* Discretisation._concatenate_in_order and concatenate                    *)
(***************************************************************************)
\* pybamm.numpy_concatenation(*symbols)
NumpyConcatenation(children) == [k |-> "NumpyConcatenation", children |-> children]

\* pybamm.SparseStack(*symbols)
SparseStack(children) == [k |-> "SparseStack", children |-> children]

concatenate(symbols, sparse) ==
    IF sparse THEN SparseStack(symbols) ELSE NumpyConcatenation(symbols)

\* variant: the opposite order
SliceGreater(a, b) == a.start > b.start \/ (a.start = b.start /\ a.stop > b.stop)

\* Python's order on slices: by start, then by stop
SliceLess(a, b) == a.start < b.start \/ (a.start = b.start /\ a.stop < b.stop)

\* variant: the equations in the iteration order of the dict
KeepOrder(slices, equations) == equations

\* "[eq for _, eq in sorted(zip(slices, equations))]" for distinct slices
SortBySlice(slices, equations) ==
    LET n == Len(slices)
        rank(i) == Cardinality({j \in 1..n : SliceLess(slices[j], slices[i])}) + 1
    IN  [r \in 1..n |-> equations[CHOOSE i \in 1..n : rank(i) = r]]

\* the keys with the children of the concatenation variables
unpacked_variables(keys) ==
    UNION {IF isConcatenationVariable(keys[i])
           THEN {keys[i]} \cup Range(VarTable[keys[i]].children)
           ELSE {keys[i]} : i \in 1..Len(keys)}

\* variant: the message lists the unknowns that were not provided
missing_variable_names(d, keys) ==
    LET missing == ((DOMAIN d.y_slices) \ Range(Values(d.external_variables)))
                       \ unpacked_variables(keys)
    IN  CHOOSE names \in DistinctSeqs(missing, Cardinality(missing)) : TRUE

\* lines 1100-1101: "given_variable_names = [v.name for v in
\* var_eqn_dict.keys()]", the names the message ends with
given_variable_names(d, keys) == keys

\* the result: err, the names its message lists, and out the concatenation
_concatenate_in_order(d, var_eqn_dict, check_complete, sparse) ==
    Let([keys \in {Keys(var_eqn_dict)} |->
    IF \E i \in 1..Len(keys) : keys[i] \notin DOMAIN d.y_slices
    THEN [err |-> "KeyError", names |-> <<>>, out |-> None]
    ELSE IF check_complete
            /\ unpacked_variables(keys)
                   # (DOMAIN d.y_slices) \ Range(Values(d.external_variables))
    THEN [err |-> "ModelError: Initial conditions are insufficient",
          names |-> given_variable_names(d, keys), out |-> None]
    ELSE [err |-> "", names |-> <<>>,
          out |-> concatenate(
                      SortBySlice([i \in 1..Len(keys) |-> d.y_slices[keys[i]][1]],
                                  Values(var_eqn_dict)),
                      sparse)]])

(***************************************************************************)
(* External variables.                                                     *)
(***************************************************************************)
\* spatial_method.preprocess_external_variables(var): the extrapolated
\* boundary fluxes of an external variable, as boundary conditions
preprocess_external_variables(var) ==
    <<Item(var,
           <<Item("left", [eqn |-> BoundaryValue(Variable(var), "left"),
                           typ |-> "Neumann"]),
             Item("right", [eqn |-> BoundaryValue(Variable(var), "right"),
                            typ |-> "Neumann"])>>)>>

\* Discretisation._preprocess_external_variables: the model's
\* boundary_conditions after the in-place update, or KeyError
RECURSIVE _preprocess_external_variables(_, _, _)
_preprocess_external_variables(d, external_variables, boundary_conditions) ==
    IF external_variables = <<>>
    THEN [err |-> "", boundary_conditions |-> boundary_conditions]
    ELSE LET var == Head(external_variables) IN
         IF VarTable[var].domain = <<>>
         THEN _preprocess_external_variables(d, Tail(external_variables),
                                             boundary_conditions)
         ELSE IF VarTable[var].domain[1] \notin d.spatial_methods
         THEN [err |-> "KeyError", boundary_conditions |-> boundary_conditions]
         ELSE _preprocess_external_variables(
                  d, Tail(external_variables),
                  Update(boundary_conditions, preprocess_external_variables(var)))

\* the keys of Discretisation.external_variables: (name, parent_and_slice)
ExternalKey(name, parent) == [name |-> name, parent |-> parent]

\* the children of an external concatenation, registered with their offsets
RECURSIVE set_external_children(_, _, _, _, _, _)
set_external_children(d, registered, name, var, children, start) ==
    IF children = <<>> THEN [err |-> "", external_variables |-> registered]
    ELSE LET child == Head(children) IN
         IF VarTable[child].domain[1] \notin d.spatial_methods
         THEN [err |-> "KeyError", external_variables |-> registered]
         ELSE IF _get_auxiliary_domain_repeats(child) > 1
         THEN [err |-> "NotImplementedError", external_variables |-> registered]
         ELSE LET end == start + _get_variable_size(child) IN
              set_external_children(
                  d,
                  Put(registered,
                      ExternalKey(name, Some([var |-> var, start |-> start,
                                              end |-> end])),
                      child),
                  name, var, Tail(children), end)

\* Discretisation.set_external_variables: self.external_variables after the
\* registrations (those made before an exception stay)
RECURSIVE set_external_variables(_, _, _, _)
set_external_variables(d, registered, external_variables, variables) ==
    IF external_variables = <<>> THEN [err |-> "", external_variables |-> registered]
    ELSE Let([var \in {Head(external_variables)} |->
         Let([idx \in {IndexOf(Values(variables), Variable(var))} |->
         IF idx = 0 THEN [err |-> "ValueError", external_variables |-> registered]
         ELSE Let([r \in {IF isConcatenationVariable(var)
                  THEN set_external_children(d, registered, variables[idx].key,
                                             var, VarTable[var].children, 0)
                  ELSE [err |-> "",
                        external_variables |->
                            Put(registered,
                                ExternalKey(variables[idx].key, None), var)]} |->
                      IF r.err # "" THEN r
                      ELSE set_external_variables(d, r.external_variables,
                                                  Tail(external_variables),
                                                  variables)])])])

(***************************************************************************)
(* Discretisation.process_boundary_conditions.  A boundary condition is    *)
(* (eqn, typ); the dict of a key is {side: (eqn, typ)}.                    *)
(***************************************************************************)
BC(eqn, typ) == [eqn |-> eqn, typ |-> typ]

\* lines 510-519: the condition at r = 0 of a spherical domain
SphericalCheck(key, bcs) ==
    IF \A i \in 1..Len(VarTable[key].domain) :
           coord_sys(VarTable[key].domain[i]) # "spherical polar"
    THEN ""
    ELSE IF ~Has(bcs, "left") THEN "KeyError"
    ELSE IF Get(bcs, "left").eqn.k # "Scalar" THEN "AttributeError"
    ELSE IF Get(bcs, "left").eqn.value # 0 \/ Get(bcs, "left").typ # "Neumann"
    THEN "ModelError: Boundary condition at r = 0 must be a homogeneous Neumann condition"
    ELSE ""

\* lines 507-524: the checks of the boundary conditions of one key
check_boundary_condition(d, external_variables, key, bcs) ==
    Let([sph \in {IF key \in Range(external_variables) THEN ""
        ELSE SphericalCheck(key, bcs)} |->
            IF sph = "" /\ HasTabSide(bcs)
            THEN check_tab_conditions(d.tabs, VarTable[key].domain, bcs)
            ELSE [err |-> sph, bcs |-> bcs]])

\* the dict of a key with the equations eqns in place of its own
with_equations(bcs, eqns) ==
    [i \in 1..Len(bcs) |-> Item(bcs[i].key, BC(eqns[i], bcs[i].val.typ))]

\* one iteration of the loop over model.boundary_conditions.items():
\* out is processed_bcs[key], bcs the model's dict of the key afterwards
process_boundary_condition(d, st, external_variables, key, bcs) ==
    Let([tab \in {check_boundary_condition(d, external_variables, key, bcs)} |->
    IF tab.err # "" THEN [err |-> tab.err, st |-> st, out |-> None, bcs |-> tab.bcs]
    ELSE Let([r \in {process_symbols(d, st, [i \in 1..Len(tab.bcs) |-> tab.bcs[i].val.eqn])} |->
                 [err |-> r.err, st |-> r.st,
                  out |-> IF r.err # "" THEN None
                          ELSE with_equations(tab.bcs, r.out),
                  bcs |-> with_equations(tab.bcs, r.symbol)]])])

\* out is processed_bcs, boundary_conditions the model's mapping afterwards
RECURSIVE process_boundary_conditions(_, _, _, _)
process_boundary_conditions(d, st, external_variables, boundary_conditions) ==
    IF boundary_conditions = <<>>
    THEN [err |-> "", st |-> st, out |-> <<>>, boundary_conditions |-> <<>>]
    ELSE Let([key \in {Head(boundary_conditions).key} |->
         Let([h \in {process_boundary_condition(d, st, external_variables, key,
                                        Head(boundary_conditions).val)} |->
         IF h.err # ""
         THEN [err |-> h.err, st |-> h.st, out |-> None,
               boundary_conditions |->
                   <<Item(key, h.bcs)>> \o Tail(boundary_conditions)]
         ELSE Let([t \in {process_boundary_conditions(d, h.st, external_variables,
                                              Tail(boundary_conditions))} |->
                      [err |-> t.err, st |-> t.st,
                       out |-> IF t.err # "" THEN None
                               ELSE <<Item(key, h.out)>> \o t.out,
                       boundary_conditions |->
                           <<Item(key, h.bcs)>> \o t.boundary_conditions]])])])

(***************************************************************************)
(* Discretisation.set_internal_boundary_conditions                         *)
(***************************************************************************)
\* spatial_method.internal_neumann_condition(left_symbol_disc,
\* right_symbol_disc, left_mesh, right_mesh)
internal_neumann_condition(left, right) ==
    [k |-> "InternalNeumann", left |-> left, right |-> right]

\* lines 433 and 441: "rbc = (boundary_gradient(current_child, next_child),
\* "Neumann")", the tuple built at seam number seam; obj tells this tuple
\* from every other tuple built during the call
seam_condition(lowered, seam, obj) ==
    [eqn |-> internal_neumann_condition(lowered[2 * seam - 1], lowered[2 * seam]),
     typ |-> "Neumann", obj |-> obj]

\* variant: each child gets tuples of its own, equal to its neighbour's
internal_bc_sides_rebuilt(lowered, parent_bcs, i, n) ==
    <<Item("left",
           IF i = 1 THEN Get(parent_bcs, "left")
           ELSE seam_condition(lowered, i - 1, <<i - 1, "left">>)),
      Item("right",
           IF i = n THEN Get(parent_bcs, "right")
           ELSE seam_condition(lowered, i, <<i, "right">>))>>

\* lines 437-455: the conditions of the i-th of n children, from the
\* lowered children lowered (two per seam) and the conditions of the
\* parent; "lbc = rbc" hands the tuple of a seam to the next child
internal_bc_sides(lowered, parent_bcs, i, n) ==
    <<Item("left",
           IF i = 1 THEN Get(parent_bcs, "left")
           ELSE seam_condition(lowered, i - 1, <<i - 1>>)),
      Item("right",
           IF i = n THEN Get(parent_bcs, "right")
           ELSE seam_condition(lowered, i, <<i>>))>>

\* variant: only the first and the last child get conditions
internal_bcs_of_outer_children(lowered, parent_bcs, bc_keys, children) ==
    Let([missing \in {SelectSeq(<<1, Len(children)>>,
                  LAMBDA i : children[i] \notin bc_keys)} |->
            [j \in 1..Len(missing) |->
                Item(children[missing[j]],
                     internal_bc_sides(lowered, parent_bcs, missing[j],
                                       Len(children)))]])

\* the children of var with no boundary conditions of their own, with theirs
internal_bcs_missing(lowered, parent_bcs, bc_keys, children) ==
    Let([missing \in {SelectSeq([i \in 1..Len(children) |-> i],
                  LAMBDA i : children[i] \notin bc_keys)} |->
            [j \in 1..Len(missing) |->
                Item(children[missing[j]],
                     internal_bc_sides(lowered, parent_bcs, missing[j],
                                       Len(children)))]])

\* the conditions synthesised for the children of one concatenation var:
\* out is the dict to merge into internal_bcs
internal_bcs_of(d, st, bc_keys, var) ==
    IF Len(VarTable[var].children) < 2
    THEN [err |-> "IndexError", st |-> st, out |-> None]
    ELSE IF ~Has(Get(st.bcs, var), "left")
    THEN [err |-> "KeyError", st |-> st, out |-> None]
    ELSE \* boundary_gradient lowers the two children of each seam in turn
         Let([r \in {process_symbols(d, st,
                 Flatten([i \in 1..(Len(VarTable[var].children) - 1) |->
                            <<Variable(VarTable[var].children[i]),
                              Variable(VarTable[var].children[i + 1])>>]))} |->
                 IF r.err # "" THEN [err |-> r.err, st |-> r.st, out |-> None]
                 ELSE IF ~Has(Get(st.bcs, var), "right")
                 THEN [err |-> "KeyError", st |-> r.st, out |-> None]
                 ELSE [err |-> "", st |-> r.st,
                       out |-> internal_bcs_missing(r.out, Get(st.bcs, var),
                                                    bc_keys,
                                                    VarTable[var].children)]])

RECURSIVE internal_bcs_loop(_, _, _, _, _)
internal_bcs_loop(d, st, bc_keys, keys, internal_bcs) ==
    IF keys = <<>> THEN [err |-> "", st |-> st, out |-> internal_bcs]
    ELSE IF ~isConcatenationVariable(Head(keys))
    THEN internal_bcs_loop(d, st, bc_keys, Tail(keys), internal_bcs)
    ELSE Let([h \in {internal_bcs_of(d, st, bc_keys, Head(keys))} |->
         IF h.err # "" THEN h
         ELSE internal_bcs_loop(d, h.st, bc_keys, Tail(keys),
                                Update(internal_bcs, h.out))])

\* the cache and self.bcs afterwards: self.bcs.update(internal_bcs) changes
\* the mapping in place, without the setter
set_internal_boundary_conditions(d, st, boundary_conditions) ==
    Let([r \in {internal_bcs_loop(d, st, Range(Keys(st.bcs)),
                          Keys(boundary_conditions), <<>>)} |->
            IF r.err # "" THEN [err |-> r.err, st |-> r.st]
            ELSE [err |-> "", st |-> [r.st EXCEPT !.bcs = Update(r.st.bcs, r.out)]]])

(***************************************************************************)
(* Discretisation.create_mass_matrix.  Every block here is a multiple of   *)
(* the identity: Block(1, n) for an ODE unknown of n points (the scalar    *)
(* 1.0 is Block(1, 1)), Block(0, n) for the algebraic equations.           *)
(***************************************************************************)
Block(diag, n) == [diag |-> diag, n |-> n]

\* pybamm.Matrix(scipy.sparse.block_diag(blocks)): its shape and diagonal;
\* every entry off the diagonal is zero
block_diag(blocks) ==
    [shape |-> SumSeq([i \in 1..Len(blocks) |-> blocks[i].n]),
     diagonal |-> Flatten([i \in 1..Len(blocks) |->
                             Repeat(blocks[i].diag, blocks[i].n)]),
     blocks |-> blocks]

\* spatial_methods[var.domain[0]].mass_matrix(var, bcs).entries: the
\* identity over the points of the variable
mass_matrix(var) == Block(1, _get_variable_size(var))

\* the mass block of one rhs unknown (lines 669-692)
mass_of(var) == IF VarTable[var].domain = <<>> THEN Block(1, 1) ELSE mass_matrix(var)

\* variant: one zero per algebraic equation instead of one per row
mass_algebraic_per_equation(model) ==
    IF model.algebraic # <<>> THEN <<Block(0, Len(model.algebraic))>> ELSE <<>>

\* lines 694-698: the zero block of the algebraic equations
mass_algebraic(model) ==
    IF model.algebraic # <<>>
    THEN <<Block(0, Size(model.concatenated_algebraic[1]))>>
    ELSE <<>>

\* variant: an inverse whenever there is a mass matrix
mass_matrix_inv_always(model, mass_inv_list) == Some(block_diag(mass_inv_list))

\* lines 703-710: the inverse of the ODE part, only with rhs equations
mass_matrix_inv(model, mass_inv_list) ==
    IF Len(model.rhs) > 0 THEN Some(block_diag(mass_inv_list)) ELSE None

\* lines 659-692: the mass blocks of the rhs unknowns in slice order
mass_list(d, model_variables) ==
    Let([sorted_model_variables \in {SortBySlice([i \in 1..Len(model_variables) |->
                        d.y_slices[model_variables[i]][1]],
                    model_variables)} |->
            [i \in 1..Len(model_variables) |-> mass_of(sorted_model_variables[i])]])

\* the result: err, mass_matrix and mass_matrix_inv (None or Some(matrix))
create_mass_matrix(d, model) ==
    Let([model_variables \in {Keys(model.rhs)} |->
    IF \E i \in 1..Len(model_variables) : model_variables[i] \notin DOMAIN d.y_slices
    THEN [err |-> "KeyError", mass_matrix |-> None, mass_matrix_inv |-> None]
    ELSE IF \E i \in 1..Len(model_variables) :
                ~(NeedsMethod(model_variables[i]) \subseteq d.spatial_methods)
    THEN [err |-> "KeyError", mass_matrix |-> None, mass_matrix_inv |-> None]
    ELSE IF Len(model.rhs) + Len(model.algebraic) > 0
    THEN Let([blocks \in {mass_list(d, model_variables)} |->
             [err |-> "",
              mass_matrix |-> Some(block_diag(blocks \o mass_algebraic(model))),
              mass_matrix_inv |-> mass_matrix_inv(model, blocks)]])
    ELSE [err |-> "", mass_matrix |-> None, mass_matrix_inv |-> None]])

(***************************************************************************)
(* Discretisation.check_model: check_initial_conditions, check_variables.  *)
(* The result is the exception raised, "" if none.                         *)
(***************************************************************************)
\* the check of one initial condition against the bounds of its variable
check_initial_condition(var, eqn) ==
    IF HasInputParameter(eqn) THEN ""
    ELSE IF ~IsConstant(eqn) THEN "TypeError"
    ELSE LET ic_eval == Evaluate(eqn) IN
         IF \A i \in 1..Len(ic_eval) :
                VarTable[var].bounds[1] <= ic_eval[i]
                    /\ ic_eval[i] <= VarTable[var].bounds[2]
         THEN ""
         ELSE "ModelError: initial condition is outside of variable bounds"

FirstError(errs) ==
    IF \A i \in 1..Len(errs) : errs[i] = "" THEN ""
    ELSE errs[CHOOSE i \in 1..Len(errs) :
                  errs[i] # "" /\ \A j \in 1..(i - 1) : errs[j] = ""]

\* the shape check of one equation dict against the initial conditions
check_shapes(eqns, initial_conditions) ==
    FirstError([i \in 1..Len(eqns) |->
        IF ~Has(initial_conditions, eqns[i].key) THEN "KeyError"
        ELSE IF Size(eqns[i].val) # Size(Get(initial_conditions, eqns[i].key))
        THEN "ModelError: equation and initial conditions must have the same shape"
        ELSE ""])

check_initial_conditions(model) ==
    FirstError(
        <<FirstError([i \in 1..Len(model.initial_conditions) |->
              check_initial_condition(model.initial_conditions[i].key,
                                      model.initial_conditions[i].val)]),
          check_shapes(model.rhs, model.initial_conditions),
          check_shapes(model.algebraic, model.initial_conditions)>>)

\* pybamm.is_matrix_one on a factor of a product
is_matrix_one(node) ==
    node.k = "Vector" /\ \A i \in 1..Len(node.entries) : node.entries[i] = 1

\* an output named like an rhs unknown has the shape of its equation, is a
\* concatenation or is a product with a vector of ones
check_variables(model) ==
    FirstError([i \in 1..Len(model.rhs) |->
        IF ~Has(model.variables, model.rhs[i].key) THEN ""
        ELSE LET var == Get(model.variables, model.rhs[i].key)
                 different_shapes == Size(model.rhs[i].val) # Size(var)
                 not_concatenation ==
                     var.k \notin {"DomainConcatenation", "NumpyConcatenation"}
                 not_mult_by_one_vec ==
                     ~(var.k = "Multiplication"
                       /\ (is_matrix_one(var.left) \/ is_matrix_one(var.right)))
             IN  IF different_shapes /\ not_concatenation /\ not_mult_by_one_vec
                 THEN "ModelError: variable and its eqn must have the same shape"
                 ELSE ""])

check_model(model) ==
    FirstError(<<check_initial_conditions(model), check_variables(model)>>)

(***************************************************************************)
(* Discretisation.create_jacobian, on a discretised model.                 *)
(***************************************************************************)
\* jacobian.jac(eqn, y): the block of rows of one equation
jac(eqn, y) == [k |-> "Jacobian", eqn |-> eqn, y |-> y]

\* lines 744-748 and 754-758: the Jacobian blocks of one equation dict,
\* stacked in slice order
jac_of(d, eqns, y) ==
    _concatenate_in_order(
        d, [i \in 1..Len(eqns) |-> Item(eqns[i].key, jac(eqns[i].val, y))],
        FALSE, TRUE)

\* the Jacobian and its rhs and algebraic parts (None where an exception
\* is raised)
create_jacobian(d, model) ==
    Let([y \in {StateVector(<<slice(0, Size(model.concatenated_initial_conditions[1]))>>)} |->
    Let([jac_rhs \in {jac_of(d, model.rhs, y)} |->
    Let([jac_algebraic \in {jac_of(d, model.algebraic, y)} |->
    IF jac_rhs.err # "" \/ jac_algebraic.err # ""
    THEN [err |-> "KeyError", jac |-> None, jac_rhs |-> None, jac_algebraic |-> None]
    ELSE [err |-> "",
          jac |-> IF model.rhs # <<>> /\ model.algebraic # <<>>
                  THEN SparseStack(<<jac_rhs.out, jac_algebraic.out>>)
                  ELSE IF model.algebraic = <<>> THEN jac_rhs.out
                  ELSE jac_algebraic.out,
          jac_rhs |-> jac_rhs.out, jac_algebraic |-> jac_algebraic.out]])])])

(***************************************************************************)
(* Models (pybamm.BaseModel).  An attribute that is not set is None.       *)
(***************************************************************************)
Event(name, expression) == [name |-> name, expression |-> expression]

Model(rhs, algebraic, initial_conditions, variables, events, boundary_conditions, external_variables) ==
    [rhs |-> rhs, algebraic |-> algebraic,
     initial_conditions |-> initial_conditions,
     variables |-> variables, events |-> events,
     boundary_conditions |-> boundary_conditions,
     external_variables |-> external_variables,
     is_discretised |-> FALSE,
     y_slices |-> None, bounds |-> None, bcs |-> None,
     concatenated_initial_conditions |-> None,
     concatenated_rhs |-> None, concatenated_algebraic |-> None,
     len_rhs |-> None, len_alg |-> None, len_rhs_and_alg |-> None,
     mass_matrix |-> None, mass_matrix_inv |-> None]

\* model.new_copy(): a new, undiscretised model with copies of the dicts
new_copy(model) ==
    Model(model.rhs, model.algebraic, model.initial_conditions,
          model.variables, model.events, model.boundary_conditions,
          model.external_variables)

\* the names of the (undiscretised) external variables of a model
ExternalNames(model) ==
    [i \in 1..Len(model.external_variables) |-> model.external_variables[i].name]

(***************************************************************************)
(* Discretisation.process_model.                                           *)
(*   p.inp  the model passed in, p.md the model being filled (model_disc); *)
(*          with inplace they are one object                               *)
(***************************************************************************)
St(d) == [cache |-> d.discretised_symbols, bcs |-> d.bcs, lowerings |-> d.lowerings]

WithSt(d, st) ==
    [d EXCEPT !.discretised_symbols = st.cache, !.bcs = st.bcs,
              !.lowerings = st.lowerings]

\* lowering changed nodes of an attribute the two models share
Mut(p, f, v) == [inp |-> [p.inp EXCEPT ![f] = v], md |-> [p.md EXCEPT ![f] = v]]

\* variant: model_disc is the model passed in whatever inplace says
SetBoth(p, inplace, f, v) ==
    [inp |-> [p.inp EXCEPT ![f] = v], md |-> [p.md EXCEPT ![f] = v]]

\* model_disc.f = v
Set(p, inplace, f, v) ==
    [inp |-> IF inplace THEN [p.inp EXCEPT ![f] = v] ELSE p.inp,
     md |-> [p.md EXCEPT ![f] = v]]

\* the outcome of a call: the exception (err, "" when it returned), the
\* variable names its message lists, the step that raised, the
\* Discretisation and the model passed in afterwards, and the model
\* returned (None when it raised)
Outcome(err, stage, d, model, returned) ==
    [err |-> err, names |-> <<>>, stage |-> stage, disc |-> d, model |-> model,
     returned |-> returned]

\* variant: the final checks are never run
never_checked(check, model) == ""

\* variant: the final checks are run whatever the flag says
always_checked(check, model) == check_model(model)

\* lines 249-252: "if check_model: self.check_model(model_disc)"
checked(check, model) == IF check THEN check_model(model) ELSE ""

\* variant: "model_disc.is_discretised = True" is left out
process_model_finish_unmarked(d, p, inplace, check) ==
    Let([mm \in {create_mass_matrix(d, p.md)} |->
    IF mm.err # "" THEN Outcome(mm.err, "mass_matrix", d, p.inp, None)
    ELSE Let([p1 \in {Set(Set(p, inplace, "mass_matrix", mm.mass_matrix),
                 inplace, "mass_matrix_inv", mm.mass_matrix_inv)} |->
         Let([chk \in {checked(check, p1.md)} |->
         IF chk # "" THEN Outcome(chk, "check_model", d, p1.inp, None)
         ELSE Outcome("", "done", d, p1.inp, Some(p1.md))])])])

\* lines 233-259: mass matrix, checks, is_discretised
process_model_finish(d, p, inplace, check) ==
    Let([mm \in {create_mass_matrix(d, p.md)} |->
    IF mm.err # "" THEN Outcome(mm.err, "mass_matrix", d, p.inp, None)
    ELSE Let([p1 \in {Set(Set(p, inplace, "mass_matrix", mm.mass_matrix),
                 inplace, "mass_matrix_inv", mm.mass_matrix_inv)} |->
         Let([chk \in {checked(check, p1.md)} |->
         IF chk # "" THEN Outcome(chk, "check_model", d, p1.inp, None)
         ELSE Let([p2 \in {Set(p1, inplace, "is_discretised", TRUE)} |->
                  Outcome("", "done", d, p2.inp, Some(p2.md))])])])])

\* the events with the expressions exprs in place of their own
with_expressions(events, exprs) ==
    [i \in 1..Len(events) |-> Event(events[i].name, exprs[i])]

\* lines 217-231: events and external variables
process_model_events(d, p, inplace, check) ==
    Let([ev \in {process_symbols(d, St(d), [i \in 1..Len(p.inp.events) |->
                                     p.inp.events[i].expression])} |->
    Let([p1 \in {Mut(p, "events", with_expressions(p.inp.events, ev.symbol))} |->
    IF ev.err # "" THEN Outcome(ev.err, "events", WithSt(d, ev.st), p1.inp, None)
    ELSE Let([p2 \in {Set(p1, inplace, "events", with_expressions(p.inp.events, ev.out))} |->
         Let([ex \in {process_symbols(d, ev.st, p.inp.external_variables)} |->
         IF ex.err # ""
         THEN Outcome(ex.err, "external_variables", WithSt(d, ex.st), p2.inp, None)
         ELSE process_model_finish(
                  WithSt(d, ex.st),
                  Set(p2, inplace, "external_variables", ex.out),
                  inplace, check)])])])])

\* lines 208-215: model_disc.rhs, concatenated_rhs, algebraic,
\* concatenated_algebraic and the lengths
set_equations(p, inplace, rhs, concat_rhs, alg, concat_alg) ==
    Set(Set(Set(Set(Set(Set(Set(p, inplace, "rhs", rhs),
                                inplace, "concatenated_rhs", Some(concat_rhs)),
                            inplace, "algebraic", alg),
                        inplace, "concatenated_algebraic", Some(concat_alg)),
                    inplace, "len_rhs", Some(Size(concat_rhs))),
                inplace, "len_alg", Some(Size(concat_alg))),
        inplace, "len_rhs_and_alg", Some(Size(concat_rhs) + Size(concat_alg)))

\* lines 206-215: process_rhs_and_algebraic and the lengths
process_model_equations(d, p, inplace, check) ==
    Let([rhs \in {process_dict(d, St(d), p.inp.rhs, FALSE)} |->
    Let([p1 \in {Mut(p, "rhs", rhs.symbol)} |->
    Let([d1 \in {WithSt(d, rhs.st)} |->
    IF rhs.err # "" THEN Outcome(rhs.err, "rhs_and_algebraic", d1, p1.inp, None)
    ELSE Let([concat_rhs \in {_concatenate_in_order(d1, rhs.out, FALSE, FALSE)} |->
    IF concat_rhs.err # ""
    THEN Outcome(concat_rhs.err, "rhs_and_algebraic", d1, p1.inp, None)
    ELSE Let([alg \in {process_dict(d1, St(d1), p.inp.algebraic, FALSE)} |->
    Let([p2 \in {Mut(p1, "algebraic", alg.symbol)} |->
    Let([d2 \in {WithSt(d1, alg.st)} |->
    IF alg.err # "" THEN Outcome(alg.err, "rhs_and_algebraic", d2, p2.inp, None)
    ELSE Let([concat_alg \in {_concatenate_in_order(d2, alg.out, FALSE, FALSE)} |->
    IF concat_alg.err # ""
    THEN Outcome(concat_alg.err, "rhs_and_algebraic", d2, p2.inp, None)
    ELSE process_model_events(
             d2,
             set_equations(p2, inplace, rhs.out, concat_rhs.out,
                           alg.out, concat_alg.out),
             inplace, check)])])])])])])])])

\* lines 195-204: initial conditions and outputs
process_model_initial_conditions(d, p, inplace, check) ==
    Let([ics \in {process_dict(d, St(d), p.inp.initial_conditions, FALSE)} |->
    Let([p1 \in {Mut(p, "initial_conditions", ics.symbol)} |->
    Let([d1 \in {WithSt(d, ics.st)} |->
    IF ics.err # "" THEN Outcome(ics.err, "initial_conditions", d1, p1.inp, None)
    ELSE Let([concat_ics \in {_concatenate_in_order(d1, ics.out, TRUE, FALSE)} |->
    IF concat_ics.err # ""
    THEN [Outcome(concat_ics.err, "initial_conditions", d1, p1.inp, None)
             EXCEPT !.names = concat_ics.names]
    ELSE Let([p2 \in {Set(Set(p1, inplace, "initial_conditions", ics.out),
                 inplace, "concatenated_initial_conditions", Some(concat_ics.out))} |->
    Let([variables \in {process_dict(d1, St(d1), p.inp.variables, TRUE)} |->
    Let([p3 \in {Mut(p2, "variables", variables.symbol)} |->
    Let([d2 \in {WithSt(d1, variables.st)} |->
    IF variables.err # ""
    THEN Outcome(variables.err, "variables", d2, p3.inp, None)
    ELSE process_model_equations(
             d2, Set(p3, inplace, "variables", variables.out),
             inplace, check)])])])])])])])])

\* lines 180-193: model_disc, with its y_slices, bounds and bcs
model_disc(d, model, inplace) ==
    Set(Set(Set([inp |-> model, md |-> IF inplace THEN model ELSE new_copy(model)],
                inplace, "y_slices", d.y_slices_explicit),
            inplace, "bounds", d.bounds),
        inplace, "bcs", Some(d.bcs))

\* variant: the assignment leaves the cache as it is
bcs_setter_keeping_cache(d, value) ==
    [d EXCEPT !.bcs = value, !.lowerings.assignments = @ + 1]

\* lines 91-95: the setter of bcs, which empties the cache; the history
\* starts anew, with one more assignment
bcs_setter(d, value) ==
    [d EXCEPT !.bcs = value, !.discretised_symbols = <<>>,
              !.lowerings = [NoLowerings EXCEPT
                                !.assignments = d.lowerings.assignments + 1,
                                !.before = [returned |-> d.lowerings.returned,
                                            earlier |-> d.lowerings.earlier]]]

\* lines 169-193: boundary conditions and model_disc, after the external
\* variables are registered
process_model_bcs(d1, model1, inplace, check) ==
    Let([pb \in {process_boundary_conditions(d1, St(d1), ExternalNames(model1),
                                    model1.boundary_conditions)} |->
    Let([model2 \in {[model1 EXCEPT !.boundary_conditions = pb.boundary_conditions]} |->
    IF pb.err # ""
    THEN Outcome(pb.err, "boundary_conditions", WithSt(d1, pb.st), model2, None)
    ELSE Let([d2 \in {bcs_setter(WithSt(d1, pb.st), pb.out)} |->
         Let([ib \in {set_internal_boundary_conditions(d2, St(d2),
                                              model2.boundary_conditions)} |->
         Let([d3 \in {WithSt(d2, ib.st)} |->
         IF ib.err # ""
         THEN Outcome(ib.err, "internal_boundary_conditions", d3, model2, None)
         ELSE process_model_initial_conditions(
                  d3, model_disc(d3, model2, inplace), inplace, check)])])])])])

\* lines 164-193: external variables, boundary conditions, model_disc
process_model_boundary_conditions(d, model, inplace, check) ==
    Let([pre \in {_preprocess_external_variables(d, ExternalNames(model),
                                       model.boundary_conditions)} |->
    Let([model1 \in {[model EXCEPT !.boundary_conditions = pre.boundary_conditions]} |->
    IF pre.err # "" THEN Outcome(pre.err, "external_variables", d, model1, None)
    ELSE Let([ext \in {set_external_variables(d, d.external_variables,
                                    ExternalNames(model1), model1.variables)} |->
         Let([d1 \in {[d EXCEPT !.external_variables = ext.external_variables]} |->
         IF ext.err # ""
         THEN Outcome(ext.err, "external_variables", d1, model1, None)
         ELSE process_model_bcs(d1, model1, inplace, check)])])])])

\* variant: the layout of the first model a Discretisation saw is kept
with_variable_slices_once(d, layout) ==
    IF d.y_slices_explicit # None
    THEN [d EXCEPT !.discretised_symbols = <<>>, !.lowerings = NoLowerings]
    ELSE [d EXCEPT !.y_slices = layout.y_slices,
                   !.y_slices_explicit = Some(layout.y_slices_explicit),
                   !.bounds = Some(layout.bounds),
                   !.discretised_symbols = <<>>, !.lowerings = NoLowerings]

\* variant: set_variable_slices leaves the cache as it is, so that the
\* objects of the earlier runs stay in it
with_variable_slices_keeping_cache(d, layout) ==
    [d EXCEPT !.y_slices = layout.y_slices,
              !.y_slices_explicit = Some(layout.y_slices_explicit),
              !.bounds = Some(layout.bounds),
              !.lowerings = [@ EXCEPT !.returned = <<>>, !.assignments = 0,
                                      !.earlier = Len(d.lowerings.executed),
                                      !.before = NoLowerings.before]]

\* lines 311-320: set_variable_slices stores the layout and empties the cache
with_variable_slices(d, layout) ==
    [d EXCEPT !.y_slices = layout.y_slices,
              !.y_slices_explicit = Some(layout.y_slices_explicit),
              !.bounds = Some(layout.bounds),
              !.discretised_symbols = <<>>, !.lowerings = NoLowerings]

\* variant: a model without unknowns is empty whatever its outputs
is_empty_model_without_outputs(model) ==
    Len(model.rhs) = 0 /\ Len(model.algebraic) = 0

\* lines 139-143: "Make sure model isn't empty"
is_empty_model(model) ==
    Len(model.rhs) = 0 /\ Len(model.algebraic) = 0 /\ Len(model.variables) = 0

\* variant: the algebraic unknowns are laid out first
algebraic_then_rhs_keys(model) == Keys(model.algebraic) \o Keys(model.rhs)

\* line 151: "list(model.rhs.keys()) + list(model.algebraic.keys())"
rhs_then_algebraic_keys(model) == Keys(model.rhs) \o Keys(model.algebraic)

\* lines 130-162: the guards and the layout
process_model(d, model, inplace, check) ==
    Let([variables \in {rhs_then_algebraic_keys(model)} |->
    IF model.is_discretised
    THEN Outcome("ModelError: Cannot re-discretise a model", "is_discretised",
                 d, model, None)
    ELSE IF is_empty_model(model)
    THEN Outcome("ModelError: Cannot discretise empty model", "empty",
                 d, model, None)
    ELSE IF d.spatial_methods = {}
            /\ \E i \in 1..Len(variables) : VarTable[variables[i]].domain # <<>>
    THEN Outcome("DiscretisationError: Spatial method has not been given",
                 "spatial_methods", d, model, None)
    ELSE IF set_variable_slices_raises(d.spatial_methods, variables)
    THEN Outcome("KeyError", "set_variable_slices", d, model, None)
    ELSE process_model_boundary_conditions(
             with_variable_slices(d, set_variable_slices(variables)),
             model, inplace, check)])

(***************************************************************************)
(* The models the caller builds.                                           *)
(***************************************************************************)
\* a conforming array over the points of a variable, within its bounds
ArrayFor(v) == Vector([i \in 1..DomainSize(VarTable[v].domain, v) |-> i % 3])

Reverse(s) == [i \in 1..Len(s) |-> s[Len(s) + 1 - i]]

\* layout family: up to MaxUnknowns unknowns in any order, the first k of
\* them differential, the others algebraic; the initial conditions are
\* declared in the opposite order
LayoutModels ==
    {Model([i \in 1..k |-> Item(keys[i], Scalar(1))],
           [i \in 1..(Len(keys) - k) |-> Item(keys[k + i], Variable(keys[k + i]))],
           Reverse([i \in 1..Len(keys) |-> Item(keys[i], Scalar(1))]),
           <<>>, <<>>, <<>>, <<>>) :
        <<keys, k>> \in UNION {DistinctSeqs(Unknowns, n) \X (0..n) :
                                 n \in 0..MaxUnknowns}}

\* equation family: Q and c_n differential, c_p algebraic, with equations
\* and initial conditions of several shapes and values, some missing
EquationModels ==
    {Model(<<Item("Q", eq[1]), Item("c_n", eq[2])>>,
           <<Item("c_p", Variable("c_p"))>>,
           IF order = 1 THEN ic[1] \o ic[2] \o ic[3] ELSE ic[3] \o ic[2] \o ic[1],
           <<>>, <<>>, <<>>, <<>>) :
        <<eq, ic, order>> \in
            ({Scalar(1), Variable("c_n")} \X {Variable("c_n"), Variable("Q")})
            \X ({<<Item("Q", Scalar(0))>>, <<Item("Q", Scalar(9))>>}
                \X {<<Item("c_n", Scalar(1))>>, <<Item("c_n", ArrayFor("c_n"))>>}
                \X {<<>>, <<Item("c_p", Scalar(2))>>})
            \X {1, 2}}

\* output family: outputs and events, with and without unknowns
OutputModels ==
    {Model(eqs[1], eqs[2], eqs[3], variables, events, <<>>, <<>>) :
        <<eqs, variables, events>> \in
            {<<<<>>, <<>>, <<>>>>,
             <<<<Item("c_n", Variable("c_n"))>>, <<>>,
               <<Item("c_n", ArrayFor("c_n"))>>>>,
             <<<<>>, <<Item("c_n", Variable("c_n")), Item("c_p", Variable("c_p"))>>,
               <<Item("c_n", Scalar(1)), Item("c_p", Scalar(2))>>>>}
            \X {<<>>, <<Item("v", Scalar(1))>>,
                <<Item("c_n", Variable("c_n"))>>,
                <<Item("c_n", Scalar(1)), Item("c_p", Variable("c_p"))>>}
            \X {<<>>, <<Event("an event", Variable("c_n"))>>}}

\* boundary family: conditions on the tabs of the current collector and
\* on the ends of a concatenation, boundary operators on a tab, an input
\* parameter over a domain
BoundaryModels ==
    {Model(<<Item("c_e", Variable("c_e"))>>,
           <<Item("phi", Variable("phi"))>>,
           <<Item("c_e", Scalar(1)), Item("phi", ic)>>,
           variables, events, bcs, <<>>) :
        <<ic, variables, events, bcs>> \in
            {Scalar(0), InputParameter("phi_0", <<CC>>, 0)}
            \X {<<>>, <<Item("V", BoundaryValue(Variable("phi"), "positive tab"))>>}
            \X {<<>>, <<Event("cut-off",
                              BoundaryValue(Variable("phi"), "negative tab"))>>}
            \X {<<>>,
                <<Item("phi", <<Item("negative tab", BC(Scalar(0), "Dirichlet")),
                                Item("positive tab", BC(Scalar(1), "Neumann"))>>)>>,
                <<Item("phi", <<Item("negative tab", BC(Scalar(0), "Dirichlet")),
                                Item("positive tab", BC(Scalar(1), "Neumann")),
                                Item("no tab", BC(Scalar(2), "Neumann"))>>)>>,
                <<Item("phi", <<Item("negative tab", BC(Scalar(0), "Dirichlet")),
                                Item("no tab", BC(Scalar(2), "Neumann"))>>)>>,
                <<Item("c_e", <<Item("left", BC(Scalar(0), "Neumann")),
                                Item("right", BC(Scalar(1), "Dirichlet"))>>)>>}}

\* seam family: a concatenation of two or three children with conditions at
\* its ends, in some models also with conditions on one of its children
SeamModels ==
    {Model(<<Item(var, Variable(var))>>, <<>>, <<Item(var, Scalar(1))>>,
           <<>>, <<>>,
           [i \in 1..Len(keys) |->
               Item(keys[i], <<Item("left", BC(Scalar(0), "Neumann")),
                               Item("right", BC(Scalar(i), "Dirichlet"))>>)],
           <<>>) :
        <<var, keys>> \in {<<"T", <<"T">>>>, <<"T", <<"T", "T_s">>>>,
                           <<"c_e", <<"c_e">>>>, <<"c_e", <<"c_e", "c_e_n">>>>,
                           <<"c_e", <<"c_e_s", "c_e">>>>}}

\* particle family: Q and the concentration c_s_n in the particles, with
\* several conditions at the centre r = 0 of the particles
SphericalModels ==
    {Model(<<Item("Q", Scalar(1)), Item("c_s_n", Variable("c_s_n"))>>, <<>>,
           <<Item("Q", Scalar(0)), Item("c_s_n", Scalar(1))>>,
           <<>>, <<>>,
           <<Item("c_s_n", <<Item("left", left),
                             Item("right", BC(Scalar(1), "Neumann"))>>)>>,
           <<>>) :
        left \in {BC(Scalar(0), "Neumann"), BC(Scalar(1), "Neumann"),
                  BC(Scalar(0), "Dirichlet"), BC(Variable("Q"), "Neumann")}}

\* a model with the unknowns keys, declared in this order, the initial
\* condition of the i-th being the number i
OrderedModel(keys) ==
    Model([i \in 1..Len(keys) |-> Item(keys[i], Variable(keys[i]))], <<>>,
          [i \in 1..Len(keys) |-> Item(keys[i], Scalar(i))],
          <<>>, <<>>, <<>>, <<>>)

\* shape family: an event that multiplies the unknown c_n by an array, of
\* the width of c_n or of another width
ShapeModels ==
    {[OrderedModel(<<"c_n">>) EXCEPT
         !.events = <<Event("an event",
                            Multiplication(ArrayFor(v), Variable("c_n")))>>] :
        v \in {"c_n", "c_e"}}

\* two models the caller passes to one Discretisation: a model built twice,
\* the same unknowns declared in two orders, other unknowns, and the
\* initial condition of c_n given for c_p, which is no unknown of the model
ModelPairs ==
    {<<OrderedModel(<<"Q", "c_n">>), second>> :
        second \in {OrderedModel(keys) :
                       keys \in {<<"Q", "c_n">>, <<"c_n", "Q">>, <<"c_p">>}}
                   \cup {[OrderedModel(<<"Q", "c_n">>) EXCEPT
                             !.initial_conditions =
                                 <<Item("Q", Scalar(1)), Item("c_p", Scalar(2))>>]}}

\* two models the caller passes to one Discretisation, as the models of an
\* experiment are: the first has Q as an external variable, the second has
\* Q as an unknown
ExternalPairs ==
    {<<Model(<<Item("c_n", Variable("c_n"))>>, <<>>,
             <<Item("c_n", Scalar(1))>>,
             <<Item("Q", Variable("Q"))>>, <<>>, <<>>, <<Variable("Q")>>),
       OrderedModel(<<"Q", "c_n">>)>>}

TabPlacements ==
    {Tabs(n, p) : <<n, p>> \in {"left", "right"} \X {"left", "right"}}

\* Discretisation(mesh, spatial_methods) after __init__
Discretisation(tabs, spatial_methods) ==
    [tabs |-> tabs, spatial_methods |-> spatial_methods,
     bcs |-> <<>>, y_slices |-> <<>>, y_slices_explicit |-> None,
     bounds |-> None, discretised_symbols |-> <<>>, lowerings |-> NoLowerings,
     external_variables |-> <<>>]

\* the tables of spatial methods a Discretisation is built with, besides the
\* full one: none ("pybamm.Discretisation()") and one that has a method for
\* the negative electrode only
SpatialMethodTables == {{}, {NE}}

Scenarios ==
    {[disc |-> Discretisation(Tabs("left", "right"), Domains), models |-> <<m>>] :
        m \in LayoutModels \cup EquationModels \cup OutputModels
                \cup SeamModels \cup SphericalModels \cup ShapeModels}
    \cup {[disc |-> Discretisation(tabs, Domains), models |-> <<m>>] :
            <<tabs, m>> \in TabPlacements \X BoundaryModels}
    \cup {[disc |-> Discretisation(Tabs("left", "right"), Domains), models |-> ms] :
            ms \in ModelPairs \cup ExternalPairs}
    \cup {[disc |-> Discretisation(Tabs("left", "right"), methods),
           models |-> <<OrderedModel(keys)>>] :
            <<methods, keys>> \in SpatialMethodTables
                                     \X {<<"Q">>, <<"Q", "c_n">>, <<"c_p">>}}

(***************************************************************************)
(* The state machine.                                                      *)
(***************************************************************************)
NoCall ==
    [model |-> 0, inplace |-> FALSE, check_model |-> FALSE, err |-> "",
     names |-> <<>>, stage |-> "none", returned |-> 0 - 1]

Init ==
    \E s \in Scenarios :
        /\ disc = s.disc
        /\ models = s.models
        /\ copy = None
        /\ last = NoCall

\* an in-place run that raised after line 189 leaves lowered equations in
\* the model; such a model is not discretised again
HalfDiscretised(model) == model.y_slices # None /\ ~model.is_discretised

\* disc.process_model(models[m], inplace, check_model); last.returned is the
\* identity of the model returned: m itself, 0 for the new copy, -1 if the
\* call raised
ProcessModel(m, inplace, check) ==
    /\ ~HalfDiscretised(models[m])
    /\ \E o \in {process_model(disc, models[m], inplace, check)} :
        /\ disc' = o.disc
        /\ models' = [models EXCEPT ![m] = o.model]
        /\ copy' = IF o.err = "" /\ ~inplace
                   THEN Some([from |-> m, model |-> o.returned[1]])
                   ELSE copy
        /\ last' = [model |-> m, inplace |-> inplace, check_model |-> check,
                    err |-> o.err, names |-> o.names, stage |-> o.stage,
                    returned |-> IF o.err # "" THEN 0 - 1
                                 ELSE IF inplace THEN m ELSE 0]

Next ==
    \E m \in DOMAIN models, inplace \in BOOLEAN, check \in BOOLEAN :
        ProcessModel(m, inplace, check)

Spec == Init /\ [][Next]_vars

(***************************************************************************)
(* Properties.                                                             *)
(***************************************************************************)
\* the unknowns of the last call, in the order they are laid out: the keys
\* of rhs, then the keys of algebraic
Declared == Keys(models[last.model].rhs) \o Keys(models[last.model].algebraic)

\* the last call got past set_variable_slices
LaidOut ==
    last.stage \notin {"none", "is_discretised", "empty", "spatial_methods",
                       "set_variable_slices"}

\* the model the last call returned
Returned == IF last.inplace THEN models[last.model] ELSE copy[1].model

\* exactly one of the slices ys[v][i], <<v, i>> in set, selects each index
\* of 0..N-1, and no slice is empty or leaves 0..N-1
Partition(ys, set, N) ==
    /\ \A idx \in 0..(N - 1) :
          Cardinality({p \in set : idx \in Indices(ys[p[1]][p[2]])}) = 1
    /\ \A p \in set :
          /\ 0 <= ys[p[1]][p[2]].start
          /\ ys[p[1]][p[2]].start < ys[p[1]][p[2]].stop
          /\ ys[p[1]][p[2]].stop <= N

\* the slices stored under the keys of set
SlicesOf(ys, set) == UNION {{<<v, i>> : i \in 1..Len(ys[v])} : v \in set}

\* N: the sum of the widths of the declared unknowns
DeclaredWidth ==
    SumSeq([i \in 1..Len(Declared) |->
               IF VarTable[Declared[i]].domain = <<>> THEN 1
               ELSE DomainSize(VarTable[Declared[i]].domain, Declared[i])])

\* C1, as stated: after set_variable_slices all the slices stored in
\* y_slices, over every key, cover [0, N) exactly, without gap or overlap,
\* N the sum of the widths of the declared unknowns.
C1_AllSlicesPartition ==
    LaidOut => Partition(disc.y_slices, SlicesOf(disc.y_slices, DOMAIN disc.y_slices),
                         DeclaredWidth)

\* C1, amended: the slices stored under the declared unknowns themselves
\* (one each) cover [0, N) exactly, without gap or overlap; the slices
\* stored under the children of a declared concatenation are additional
\* and lie inside the slice of that concatenation.
C1_OwnSlicesPartition ==
    LaidOut =>
        /\ Range(Declared) \subseteq DOMAIN disc.y_slices
        /\ \A v \in Range(Declared) : Len(disc.y_slices[v]) = 1
        /\ Partition(disc.y_slices, SlicesOf(disc.y_slices, Range(Declared)),
                     DeclaredWidth)
        /\ \A v \in Range(Declared) :
              isConcatenationVariable(v) =>
                  \A c \in Range(VarTable[v].children) :
                      /\ c \in DOMAIN disc.y_slices
                      /\ \A i \in 1..Len(disc.y_slices[c]) :
                            /\ disc.y_slices[v][1].start <= disc.y_slices[c][i].start
                            /\ disc.y_slices[c][i].stop <= disc.y_slices[v][1].stop

\* a concatenation and another unknown were laid out
C1_Witness ==
    /\ LaidOut
    /\ Len(Declared) >= 2
    /\ \E v \in Range(Declared) : isConcatenationVariable(v)
    /\ \E v \in Range(Declared) : ~isConcatenationVariable(v)

\* C2: the unknowns get their slices in the order rhs keys, algebraic keys;
\* a non-concatenation unknown gets exactly one slice, starting where the
\* slice of the unknown before it ended (0 for the first), of length 1
\* without a domain and else the sum over its domains of the points times
\* the auxiliary repeats; a single domain-less unknown gets [slice(0, 1)]
\* and two unknowns of n points each get [slice(0, n)] and [slice(n, 2n)].
C2_SlicesInOrder ==
    LaidOut =>
        /\ \A i \in 1..Len(Declared) :
              LET v == Declared[i]
                  ys == disc.y_slices
                  before == IF i = 1 THEN 0 ELSE ys[Declared[i - 1]][1].stop
                  repeats == IF VarTable[v].secondary = <<>> THEN 1
                             ELSE SumSeq([j \in 1..Len(VarTable[v].secondary) |->
                                     npts_for_broadcast_to_nodes(
                                         VarTable[v].secondary[j])])
                  length == IF VarTable[v].domain = <<>> THEN 1
                            ELSE SumSeq([j \in 1..Len(VarTable[v].domain) |->
                                    npts_for_broadcast_to_nodes(VarTable[v].domain[j])
                                        * repeats])
              IN  /\ ys[v][1].start = before
                  /\ ~isConcatenationVariable(v) =>
                        ys[v] = <<slice(before, before + length)>>
        /\ Declared = <<"Q">> => disc.y_slices["Q"] = <<slice(0, 1)>>
        /\ Declared = <<"c_n", "c_p">> =>
              /\ disc.y_slices["c_n"] = <<slice(0, MeshPts + 1)>>
              /\ disc.y_slices["c_p"] = <<slice(MeshPts + 1, 2 * (MeshPts + 1))>>

\* an unknown with auxiliary repeats was laid out after another unknown,
\* one of them algebraic
C2_Witness ==
    /\ LaidOut
    /\ Len(Declared) = 2
    /\ Declared[2] = "c_s_n"
    /\ Len(models[last.model].algebraic) = 1

ByStart(ys, keys) ==
    CHOOSE s \in Permutations1(keys) :
        \A i \in 1..(Len(s) - 1) : ys[s[i]][1].start < ys[s[i + 1]][1].start

\* C4: the concatenated rhs, algebraic equations and initial conditions,
\* the ODE blocks of the mass matrix and the blocks of the Jacobian are in
\* ascending order of the start of each key's first slice; with the layout
\* kept, another iteration order of rhs, algebraic or initial_conditions
\* gives the same concatenations, mass matrix and Jacobian.
C4_SliceOrder ==
    last.stage = "done" =>
        LET md == Returned
            ys == disc.y_slices
            inOrder(dict) ==
                [i \in 1..Len(dict) |-> Get(dict, ByStart(ys, Keys(dict))[i])]
            y == StateVector(
                     <<slice(0, Size(md.concatenated_initial_conditions[1]))>>)
            concat(dict, check_complete) ==
                _concatenate_in_order(disc, dict, check_complete, FALSE)
        IN  /\ md.concatenated_rhs[1] = NumpyConcatenation(inOrder(md.rhs))
            /\ md.concatenated_algebraic[1] = NumpyConcatenation(inOrder(md.algebraic))
            /\ md.concatenated_initial_conditions[1]
                   = NumpyConcatenation(inOrder(md.initial_conditions))
            /\ md.rhs # <<>> =>
                  \A i \in 1..Len(md.rhs) :
                      md.mass_matrix[1].blocks[i]
                          = mass_of(ByStart(ys, Keys(md.rhs))[i])
            /\ create_jacobian(disc, md).jac_rhs
                   = SparseStack([i \in 1..Len(md.rhs) |-> jac(inOrder(md.rhs)[i], y)])
            /\ create_jacobian(disc, md).jac_algebraic
                   = SparseStack([i \in 1..Len(md.algebraic) |->
                                     jac(inOrder(md.algebraic)[i], y)])
            /\ \A q \in Permutations1(md.rhs) :
                  /\ concat(q, FALSE).out = md.concatenated_rhs[1]
                  /\ create_mass_matrix(disc, [md EXCEPT !.rhs = q]).mass_matrix
                         = md.mass_matrix
                  /\ create_mass_matrix(disc, [md EXCEPT !.rhs = q]).mass_matrix_inv
                         = md.mass_matrix_inv
                  /\ create_jacobian(disc, [md EXCEPT !.rhs = q])
                         = create_jacobian(disc, md)
            /\ \A q \in Permutations1(md.algebraic) :
                  /\ concat(q, FALSE).out = md.concatenated_algebraic[1]
                  /\ create_jacobian(disc, [md EXCEPT !.algebraic = q])
                         = create_jacobian(disc, md)
            /\ \A q \in Permutations1(md.initial_conditions) :
                  concat(q, TRUE).out = md.concatenated_initial_conditions[1]

\* a model with two rhs unknowns was discretised whose initial conditions
\* are declared in another order than the slices
C4_Witness ==
    /\ last.stage = "done"
    /\ Len(Returned.rhs) >= 2
    /\ Len(Returned.algebraic) >= 1
    /\ Keys(Returned.initial_conditions)
           # ByStart(disc.y_slices, Keys(Returned.initial_conditions))

C6_MassMatrixInverse ==
    last.stage = "done" =>
        LET md == Returned
            mm == md.mass_matrix
            inv == md.mass_matrix_inv
        IN  /\ (inv # None) <=> (Len(md.rhs) > 0)
            /\ inv # None =>
                  /\ Len(inv[1].blocks) = Len(md.rhs)
                  /\ \A i \in 1..Len(md.rhs) : inv[1].blocks[i] = mm[1].blocks[i]
                  /\ inv[1].shape
                         = SumSeq([i \in 1..Len(md.rhs) |->
                               Width(md.y_slices[1][md.rhs[i].key][1])])
                  /\ Len(mm[1].blocks)
                         = Len(inv[1].blocks)
                               + (IF md.algebraic # <<>> THEN 1 ELSE 0)
            /\ (md.rhs = <<>> /\ md.algebraic = <<>>) => (mm = None /\ inv = None)
            /\ (md.rhs = <<>> /\ md.algebraic # <<>>) => (mm # None /\ inv = None)

\* a model with algebraic unknowns only was discretised
C6_Witness ==
    /\ last.stage = "done"
    /\ Returned.rhs = <<>>
    /\ Len(Returned.algebraic) = 2
    /\ Returned.mass_matrix # None

\* the exception of lines 130-135
Rediscretise == "ModelError: Cannot re-discretise a model"

\* C7: process_model on a model marked is_discretised raises a ModelError
\* and changes neither the model nor the y_slices, bounds, boundary
\* conditions or cache of the Discretisation; a successful in-place call
\* marks the model and the mark stays, so every later call on it raises.
C7_RediscretiseRaises ==
    /\ []((last.stage = "done" /\ last.inplace)
              => models[last.model].is_discretised)
    /\ [][/\ \A m \in DOMAIN models :
                models[m].is_discretised => models'[m].is_discretised
          /\ models[last'.model].is_discretised =>
                /\ last'.err = Rediscretise
                /\ last'.stage = "is_discretised"
                /\ disc' = disc
                /\ models' = models
                /\ copy' = copy]_vars

\* a call on a model discretised in place before has raised
C7_Witness ==
    /\ last.err = Rediscretise
    /\ models[last.model].is_discretised
    /\ disc.y_slices_explicit # None

\* what a successful inplace=False call leaves: the model returned is
\* another object, marked discretised, the model passed in is not marked
C8_Returned ==
    (last.stage = "done" /\ ~last.inplace) =>
        /\ last.returned # last.model
        /\ copy # None
        /\ copy[1].from = last.model
        /\ copy[1].model.is_discretised
        /\ ~models[last.model].is_discretised

\* C8, as stated: after a successful process_model(model, inplace=False)
\* the model returned is another object, marked discretised, the model
\* passed in is not marked, and no further call on the model passed in,
\* in place or not, raises the re-discretisation error.
C8_AnyFurtherCallSucceeds ==
    /\ []C8_Returned
    /\ [][(copy # None /\ copy[1].from = last'.model)
              => last'.err # Rediscretise]_vars

\* C8, amended: after a successful process_model(model, inplace=False) the
\* model returned is another object, marked discretised, and the model
\* passed in is not marked; a call with inplace=False never marks the
\* model passed in, so further calls on it do not raise the
\* re-discretisation error while no in-place call on it has succeeded; a
\* successful in-place call marks it.
C8_FurtherCallsNotInPlace ==
    /\ []C8_Returned
    /\ [][/\ ~last'.inplace =>
                models'[last'.model].is_discretised
                    = models[last'.model].is_discretised
          /\ (copy # None /\ copy[1].from = last'.model
                  /\ ~models[last'.model].is_discretised)
                => last'.err # Rediscretise
          /\ (last'.inplace /\ last'.stage = "done")
                => models'[last'.model].is_discretised]_vars

\* after a successful inplace=False call a further call on the same
\* model, in place, has succeeded
C8_Witness ==
    /\ copy # None
    /\ copy[1].from = last.model
    /\ last.inplace
    /\ last.stage = "done"
    /\ Len(models[last.model].rhs) > 0

\* C9, as stated: when process_model raises, the model passed in has its
\* rhs, algebraic, initial_conditions, variables and events as before the
\* call, got no y_slices, bounds or bcs from the failed run and is not
\* marked discretised by it.
C9_NoPartialEffect ==
    [][last'.err # "" =>
          /\ models'[last'.model].rhs = models[last'.model].rhs
          /\ models'[last'.model].algebraic = models[last'.model].algebraic
          /\ models'[last'.model].initial_conditions
                 = models[last'.model].initial_conditions
          /\ models'[last'.model].variables = models[last'.model].variables
          /\ models'[last'.model].events = models[last'.model].events
          /\ models'[last'.model].y_slices = models[last'.model].y_slices
          /\ models'[last'.model].bounds = models[last'.model].bounds
          /\ models'[last'.model].bcs = models[last'.model].bcs
          /\ models'[last'.model].is_discretised
                 = models[last'.model].is_discretised]_vars

\* C10, as stated: after process_model(model, inplace=False) returns, the
\* model passed in is as before the call: its boundary_conditions (keys
\* and sides) and every node of its equations, boundary conditions,
\* outputs and events (the side of a boundary operator, the expected size
\* of an input parameter).
C10_InputUnchanged ==
    [][(last'.stage = "done" /\ ~last'.inplace)
           => models'[last'.model] = models[last'.model]]_vars

\* C11: process_model on a model gives the same outcome, and when it
\* returns the same y_slices, bounds and concatenated initial conditions,
\* as process_model on a structurally identical model with a Discretisation
\* of its own over the same mesh and spatial methods, whatever the
\* Discretisation at hand has processed before (it has registered no
\* external variables); so two such runs give equal results.
C11_SameAsOwnDiscretisation ==
    [][disc.external_variables = <<>> =>
          \A own \in {process_model(Discretisation(disc.tabs, disc.spatial_methods),
                                    models[last'.model], last'.inplace,
                                    last'.check_model)} :
              /\ last'.err = own.err
              /\ last'.stage = own.stage
              /\ last'.err = "" =>
                    /\ Returned'.y_slices = own.returned[1].y_slices
                    /\ Returned'.bounds = own.returned[1].bounds
                    /\ Returned'.concatenated_initial_conditions
                           = own.returned[1].concatenated_initial_conditions
                    /\ disc'.y_slices = own.disc.y_slices
                    /\ disc'.bounds = own.disc.bounds]_vars

\* a model was discretised by a Discretisation that had discretised a
\* model with another layout before
C11_Witness ==
    /\ last.stage = "done"
    /\ \E m \in DOMAIN models \ {last.model} :
          /\ models[m].is_discretised
          /\ Keys(models[m].rhs) # Keys(models[last.model].rhs)
\* the exception of line 145
EmptyModel == "ModelError: Cannot discretise empty model"

\* the last call was a call on a model not discretised before
C12_Called == last.stage \notin {"none", "is_discretised"}

\* C12, as stated: process_model raises the ModelError of an empty model
\* whenever the model has no unknowns, that is no key in rhs and none in
\* algebraic.
C12_NoUnknownsRaises ==
    (C12_Called /\ Len(models[last.model].rhs) = 0
                /\ Len(models[last.model].algebraic) = 0)
        => last.err = EmptyModel

\* C12, amended: process_model raises the ModelError of an empty model
\* exactly when rhs, algebraic and variables are all empty; a model
\* without unknowns that has outputs passes this guard, and is discretised
\* with an empty layout when its outputs and events name no unknown.
C12_EmptyModelRaises ==
    C12_Called =>
        /\ last.err = EmptyModel
              <=> (/\ Len(models[last.model].rhs) = 0
                   /\ Len(models[last.model].algebraic) = 0
                   /\ Len(models[last.model].variables) = 0)
        /\ last.err = EmptyModel <=> last.stage = "empty"
        /\ (/\ Len(models[last.model].rhs) = 0
            /\ Len(models[last.model].algebraic) = 0
            /\ models[last.model].variables = <<Item("v", Scalar(1))>>
            /\ models[last.model].events = <<>>)
              => /\ last.stage = "done"
                 /\ DOMAIN disc.y_slices = {}

\* an empty model was passed and the call raised
C12_Witness ==
    /\ last.stage = "empty"
    /\ Len(models[last.model].rhs) = 0
    /\ Len(models[last.model].algebraic) = 0
\* the exception of lines 1101-1104, whose message ends with last.names
Insufficient == "ModelError: Initial conditions are insufficient"

\* the steps of process_model before process_initial_conditions
BeforeInitialConditions ==
    {"none", "is_discretised", "empty", "spatial_methods", "set_variable_slices",
     "external_variables", "boundary_conditions", "internal_boundary_conditions"}

\* the unknowns of the layout, external variables apart, without an entry
\* in the initial conditions given
WithoutInitialCondition(d, initial_conditions) ==
    ((DOMAIN d.y_slices) \ Range(Values(d.external_variables)))
        \ unpacked_variables(Keys(initial_conditions))

\* C13, as stated: whenever an unknown of the layout that is not an
\* external variable has no entry in model.initial_conditions,
\* process_initial_conditions raises a ModelError whose message names an
\* unknown that lacks its initial condition.
C13_NamesTheMissingUnknown ==
    [][(/\ last'.stage \notin BeforeInitialConditions
        /\ WithoutInitialCondition(disc', models[last'.model].initial_conditions) # {})
           => /\ last'.err = Insufficient
              /\ \E name \in Range(last'.names) :
                    name \in WithoutInitialCondition(
                                 disc', models[last'.model].initial_conditions)]_vars
\* C13, amended: whenever an unknown of the layout that is not an external
\* variable has no entry in model.initial_conditions, and the initial
\* conditions given can be lowered, process_initial_conditions raises: the
\* ModelError "Initial conditions are insufficient", whose message lists
\* the variables an initial condition was provided for, in the order of
\* model.initial_conditions, and so names no unknown that lacks one; or a
\* KeyError without names, when an initial condition is given for a
\* variable that is no unknown of the layout.
C13_ListsTheGivenVariables ==
    [][LET given == models[last'.model].initial_conditions
       IN  (/\ last'.stage \notin BeforeInitialConditions
            /\ WithoutInitialCondition(disc', given) # {}
            /\ process_dict(disc', St(disc'), given, FALSE).err = "")
               => /\ last'.stage = "initial_conditions"
                  /\ IF \A key \in Range(Keys(given)) : key \in DOMAIN disc'.y_slices
                     THEN /\ last'.err = Insufficient
                          /\ last'.names = Keys(given)
                          /\ Range(last'.names)
                                 \cap WithoutInitialCondition(disc', given) = {}
                     ELSE /\ last'.err = "KeyError"
                          /\ last'.names = <<>>]_vars

\* a call raised for an unknown without initial condition, and its message
\* lists the variables that have one
C13_Witness ==
    /\ last.err = Insufficient
    /\ last.stage = "initial_conditions"
    /\ last.names # <<>>
    /\ WithoutInitialCondition(disc, models[last.model].initial_conditions) # {}
\* every initial condition of a discretised model without input parameter
\* evaluates to values within the bounds of its variable
WithinBounds(md) ==
    \A i \in 1..Len(md.initial_conditions) :
        LET var == md.initial_conditions[i].key
            eqn == md.initial_conditions[i].val
        IN  \/ HasInputParameter(eqn)
            \/ /\ IsConstant(eqn)
               /\ \A j \in 1..Len(Evaluate(eqn)) :
                     /\ VarTable[var].bounds[1] <= Evaluate(eqn)[j]
                     /\ Evaluate(eqn)[j] <= VarTable[var].bounds[2]

\* every rhs and algebraic equation of a discretised model has the size of
\* the initial condition of its key
SameShapes(md) ==
    \A eqns \in {md.rhs, md.algebraic} : \A i \in 1..Len(eqns) :
        /\ Has(md.initial_conditions, eqns[i].key)
        /\ Size(eqns[i].val) = Size(Get(md.initial_conditions, eqns[i].key))

\* the exceptions of check_initial_conditions
CheckErrors ==
    {"ModelError: initial condition is outside of variable bounds",
     "ModelError: equation and initial conditions must have the same shape"}

\* C14: when process_model with check_model=True returns, every lowered
\* initial condition without input parameter lies within the bounds of its
\* variable and every lowered rhs and algebraic equation has the shape of
\* the lowered initial condition of its key; where the lowering alone
\* (the same call without the checks) gives a model in which one of the
\* two fails, the call raises a ModelError in its final checks instead.
C14_CheckedModelIsConsistent ==
    [][last'.check_model =>
          \A lowered \in {process_model(disc, models[last'.model],
                                        last'.inplace, FALSE)} :
              /\ last'.err = "" =>
                    WithinBounds(Returned') /\ SameShapes(Returned')
              /\ (/\ lowered.err = ""
                  /\ ~(WithinBounds(lowered.returned[1])
                          /\ SameShapes(lowered.returned[1])))
                    => /\ last'.err \in CheckErrors
                       /\ last'.stage = "check_model"]_vars

\* a checked call returned a model with an initial condition for every
\* unknown, one of them over a domain
C14_Witness ==
    /\ last.check_model
    /\ last.stage = "done"
    /\ Len(Returned.initial_conditions) > 1
    /\ \E i \in 1..Len(Returned.initial_conditions) :
          Size(Returned.initial_conditions[i].val) > 1
\* C15: check_model=False skips the final checks and nothing else: where
\* the call with check_model=True returns, the call with check_model=False
\* has the same outcome (the model returned, with its y_slices, bounds,
\* bcs, lowered equations, initial conditions, events and mass matrix, the
\* Discretisation and the model passed in afterwards); where the call with
\* check_model=True raises in the final checks, the call with
\* check_model=False returns a model marked discretised; where it raises
\* before them, so does the other, in the same way.
C15_OnlyTheChecksAreSkipped ==
    [][~last'.check_model =>
          \A with_checks \in {process_model(disc, models[last'.model],
                                            last'.inplace, TRUE)} :
              /\ with_checks.err = "" =>
                    /\ last'.err = ""
                    /\ Returned' = with_checks.returned[1]
              /\ with_checks.stage = "check_model" =>
                    /\ with_checks.err \in CheckErrors
                          \cup {"TypeError", "KeyError",
                                "ModelError: variable and its eqn must have the same shape"}
                    /\ last'.err = ""
                    /\ last'.stage = "done"
                    /\ Returned'.is_discretised
              /\ with_checks.stage # "check_model" =>
                    /\ last'.err = with_checks.err
                    /\ last'.stage = with_checks.stage
                    /\ disc' = with_checks.disc
                    /\ models'[last'.model] = with_checks.model]_vars

\* a call with check_model=False returned a model that fails the final
\* checks
C15_Witness ==
    /\ ~last.check_model
    /\ last.stage = "done"
    /\ Returned.is_discretised
    /\ check_model(Returned) # ""
\* the keys of the boundary conditions the user gave to the last call
UserKeys == Range(Keys(models[last.model].boundary_conditions))

\* the concatenations among them
UserConcatenations == {var \in UserKeys : isConcatenationVariable(var)}

\* the last call got past set_internal_boundary_conditions
Resolved == last.stage \notin BeforeInitialConditions

\* the condition of a child at one side in self.bcs, None where there is none
SideOf(child, side) ==
    IF Has(disc.bcs, child) /\ Has(Get(disc.bcs, child), side)
    THEN Some(Get(Get(disc.bcs, child), side))
    ELSE None

\* the tuples built at the seams of var that self.bcs holds for its
\* children, each counted once however many children hold it
Synthesised(var) ==
    {bc \in UNION {{SideOf(VarTable[var].children[i], side) :
                        side \in {"left", "right"}} :
                     i \in 1..Len(VarTable[var].children)} :
        bc # None /\ "obj" \in DOMAIN bc[1]}

\* at the i-th seam of var the child on the left and the child on the
\* right hold one and the same synthesised Neumann tuple
SeamShared(var, i) ==
    LET right_of_left == SideOf(VarTable[var].children[i], "right")
        left_of_right == SideOf(VarTable[var].children[i + 1], "left")
    IN  /\ right_of_left # None
        /\ right_of_left \in Synthesised(var)
        /\ right_of_left[1].typ = "Neumann"
        /\ right_of_left[1].eqn.k = "InternalNeumann"
        /\ left_of_right = right_of_left

\* C16, as stated: for a concatenation of n >= 2 children with user
\* boundary conditions, set_internal_boundary_conditions leaves exactly
\* n - 1 synthesised Neumann conditions, and at each seam the "right" of
\* the left child and the "left" of the right child are the same object.
C16_EverySeamShared ==
    Resolved =>
        \A var \in UserConcatenations :
            /\ Cardinality(Synthesised(var)) = Len(VarTable[var].children) - 1
            /\ \A i \in 1..(Len(VarTable[var].children) - 1) : SeamShared(var, i)

\* C16, amended: for a concatenation of n >= 2 children with user boundary
\* conditions, set_internal_boundary_conditions builds one Neumann
\* condition per seam, n - 1 in all; at each seam whose two children have
\* no user boundary conditions of their own, the "right" of the left child
\* and the "left" of the right child are the same object; a child with
\* user boundary conditions of its own keeps them and gets none of the
\* synthesised ones.
C16_SeamsOfChildrenWithoutOwnConditions ==
    Resolved =>
        \A var \in UserConcatenations :
            LET children == VarTable[var].children
                n == Len(children)
            IN  /\ n >= 2
                /\ Cardinality(Synthesised(var)) <= n - 1
                /\ Range(children) \cap UserKeys = {}
                      => Cardinality(Synthesised(var)) = n - 1
                /\ \A i \in 1..(n - 1) :
                      {children[i], children[i + 1]} \cap UserKeys = {}
                          => SeamShared(var, i)
                /\ \A i \in 1..n : \A side \in {"left", "right"} :
                      IF children[i] \in UserKeys
                      THEN /\ SideOf(children[i], side) # None
                           /\ SideOf(children[i], side) \notin Synthesised(var)
                      ELSE (i = 1 /\ side = "left") \/ (i = n /\ side = "right")
                              \/ SideOf(children[i], side) \in Synthesised(var)

\* the conditions of a concatenation of three children, none with
\* conditions of its own, are resolved
C16_Witness ==
    /\ last.stage = "done"
    /\ UserKeys = {"c_e"}
    /\ SeamShared("c_e", 1)
    /\ SeamShared("c_e", 2)
\* the condition the user gave for var at one side
UserCondition(var, side) ==
    Get(Get(models[last.model].boundary_conditions, var), side)

\* C17: after the boundary conditions of a concatenation of three children
\* are resolved, the user having given only the "left" and the "right" of
\* the concatenation itself, the middle child has a "left" and a "right",
\* both synthesised Neumann conditions (those of the two seams); the first
\* child has the user's left condition as its "left" and a synthesised
\* "right"; the last child has a synthesised "left" and the user's right
\* condition as its "right".
C17_MiddleChildFromContinuity ==
    Resolved => \A var \in UserConcatenations :
        (/\ UserKeys = {var}
         /\ Len(VarTable[var].children) = 3
         /\ Keys(Get(models[last.model].boundary_conditions, var))
                = <<"left", "right">>)
            => LET first == VarTable[var].children[1]
                   middle == VarTable[var].children[2]
                   final == VarTable[var].children[3]
               IN  /\ Has(disc.bcs, middle)
                   /\ Keys(Get(disc.bcs, middle)) = <<"left", "right">>
                   /\ SideOf(middle, "left") \in Synthesised(var)
                   /\ SideOf(middle, "right") \in Synthesised(var)
                   /\ SideOf(middle, "left") # SideOf(middle, "right")
                   /\ \A bc \in Synthesised(var) :
                         bc[1].typ = "Neumann" /\ bc[1].eqn.k = "InternalNeumann"
                   /\ Has(disc.bcs, first)
                   /\ Keys(Get(disc.bcs, first)) = <<"left", "right">>
                   /\ SideOf(first, "left") = Some(UserCondition(var, "left"))
                   /\ SideOf(first, "left") = SideOf(var, "left")
                   /\ SideOf(first, "right") \in Synthesised(var)
                   /\ Has(disc.bcs, final)
                   /\ Keys(Get(disc.bcs, final)) = <<"left", "right">>
                   /\ SideOf(final, "left") \in Synthesised(var)
                   /\ SideOf(final, "right") = Some(UserCondition(var, "right"))
                   /\ SideOf(final, "right") = SideOf(var, "right")

\* a model with conditions at the two ends of c_e, and nothing else, was
\* discretised, and the separator got its conditions
C17_Witness ==
    /\ last.stage = "done"
    /\ UserKeys = {"c_e"}
    /\ Keys(Get(models[last.model].boundary_conditions, "c_e")) = <<"left", "right">>
    /\ Has(disc.bcs, "c_e_s")
\* the exception of lines 514-519
NotHomogeneousNeumann ==
    "ModelError: Boundary condition at r = 0 must be a homogeneous Neumann condition"

\* the keys of boundary conditions over a spherical polar mesh whose
\* condition at "left" is not a Neumann condition with value 0
SphericalKeysWithFlux(boundary_conditions) ==
    {i \in 1..Len(boundary_conditions) :
        /\ \E dom \in Range(VarTable[boundary_conditions[i].key].domain) :
              coord_sys(dom) = "spherical polar"
        /\ Has(boundary_conditions[i].val, "left")
        /\ Get(boundary_conditions[i].val, "left") # BC(Scalar(0), "Neumann")}

\* C18, as stated: process_boundary_conditions raises a ModelError when a
\* key of the boundary conditions has a domain with a spherical polar mesh
\* and its "left" condition is not a Neumann condition with value 0.
C18_SphericalOriginRaisesModelError ==
    [][(/\ last'.stage \notin {"is_discretised", "empty", "spatial_methods",
                               "set_variable_slices",
                               "external_variables"}
        /\ SphericalKeysWithFlux(models[last'.model].boundary_conditions) # {})
           => /\ last'.err = NotHomogeneousNeumann
              /\ last'.stage = "boundary_conditions"]_vars
\* C19: since the cache was last emptied (by set_variable_slices or by an
\* assignment to bcs), _process_symbol has lowered no node twice, however
\* many parents share it, and process_symbol has returned one and the same
\* object for structurally equal nodes: the object _process_symbol built
\* for that node.
C19_LoweredOnceAndShared ==
    LET executed == disc.lowerings.executed
        returned == disc.lowerings.returned
    IN  /\ \A i, j \in 1..Len(executed) : executed[i] = executed[j] => i = j
        /\ \A i, j \in 1..Len(returned) :
              returned[i].symbol = returned[j].symbol
                  => returned[i].obj = returned[j].obj
        /\ \A i \in 1..Len(returned) :
              /\ returned[i].obj \in 1..Len(executed)
              /\ executed[returned[i].obj] = returned[i].symbol
              /\ Has(disc.discretised_symbols, returned[i].symbol)

\* process_symbol was called twice on a variable that two parents share,
\* and the call returned
C19_Witness ==
    /\ last.stage = "done"
    /\ \E i, j \in 1..Len(disc.lowerings.returned) :
          /\ i < j
          /\ disc.lowerings.returned[i].symbol = disc.lowerings.returned[j].symbol
          /\ disc.lowerings.returned[i].symbol.k = "Variable"
\* the width of the slices of the state vector stored for an unknown
SliceWidth(ys, var) == SumSeq([i \in 1..Len(ys[var]) |-> Width(ys[var][i])])

\* C20: where an entry of model.rhs, model.algebraic or
\* model.initial_conditions is keyed by a variable and its equation
\* evaluates to a single number, the lowered equation of the returned model
\* has the full width of the slice of the key: process_dict broadcasts the
\* number over the domains of the key before it lowers it.
C20_NumbersAreBroadcast ==
    [][last'.stage = "done" =>
          \A f \in {"rhs", "algebraic", "initial_conditions"} :
              \A i \in 1..Len(models[last'.model][f]) :
                  EvaluatesToNumber(models[last'.model][f][i].val)
                      => /\ Returned'[f][i].key = models[last'.model][f][i].key
                         /\ Size(Returned'[f][i].val)
                                = SliceWidth(disc'.y_slices, Returned'[f][i].key)]_vars

\* a model was discretised whose initial condition for an unknown over
\* several points is a number
C20_Witness ==
    /\ last.stage = "done"
    /\ ~last.inplace
    /\ \E i \in 1..Len(models[last.model].initial_conditions) :
          /\ models[last.model].initial_conditions[i].val.k = "Scalar"
          /\ Size(Returned.initial_conditions[i].val) > 1
          /\ Size(Returned.initial_conditions[i].val)
                 = SliceWidth(disc.y_slices, Returned.initial_conditions[i].key)

\* the outputs of a model that are keyed by the name of a variable over a
\* domain and whose expression evaluates to a single number
NumberOutputs(model) ==
    {i \in 1..Len(model.variables) :
        /\ model.variables[i].key \in DOMAIN VarTable
        /\ VarTable[model.variables[i].key].domain # <<>>
        /\ EvaluatesToNumber(model.variables[i].val)
        /\ DomainOf(model.variables[i].val) = <<>>}

\* C21, as stated: an output keyed by the name of a variable over a domain
\* whose expression evaluates to a single number is broadcast to that
\* domain before lowering, so the lowered output has the width of the
\* domain.
C21_OutputsAreBroadcast ==
    [][last'.stage = "done" =>
          \A i \in NumberOutputs(models[last'.model]) :
              Size(Returned'.variables[i].val)
                  = DomainSize(VarTable[Returned'.variables[i].key].domain,
                               Returned'.variables[i].key)]_vars

\* C21, amended: the keys of model.variables are strings and process_dict
\* broadcasts under variable keys only, so such an output is lowered as it
\* is given: the lowered output is the number itself, of width 1, whatever
\* the width of the domain its key names.
C21_OutputsAreLoweredAsGiven ==
    [][last'.stage = "done" =>
          \A i \in NumberOutputs(models[last'.model]) :
              /\ Returned'.variables[i].key = models[last'.model].variables[i].key
              /\ Size(Returned'.variables[i].val) = 1
              /\ Returned'.variables[i].val.k # "FullBroadcast"
              /\ models[last'.model].variables[i].val.k = "Scalar"
                     => Returned'.variables[i].val = models[last'.model].variables[i].val]_vars

\* a model was discretised whose output "c_n" is a number, and c_n has more
\* than one point
C21_Witness ==
    /\ last.stage = "done"
    /\ ~last.inplace
    /\ \E i \in NumberOutputs(models[last.model]) :
          /\ Returned.variables[i].key = "c_n"
          /\ Size(Returned.variables[i].val) = 1
          /\ DomainSize(VarTable["c_n"].domain, "c_n") > 1

\* the unknowns of a model over a domain for which the Discretisation has no
\* spatial method
WithoutSpatialMethod(d, model) ==
    {v \in Range(Keys(model.rhs) \o Keys(model.algebraic)) :
        ~(NeedsMethod(v) \subseteq d.spatial_methods)}

\* C22, as stated: discretising a model that has an unknown over a domain
\* without a spatial method raises the DiscretisationError "Spatial method
\* has not been given", both when the table of spatial methods is empty and
\* when it is not empty but lacks that domain.
C22_MissingMethodRaisesDiscretisationError ==
    [][(/\ last'.stage \notin {"is_discretised", "empty"}
        /\ WithoutSpatialMethod(disc, models[last'.model]) # {})
           => /\ last'.err = "DiscretisationError: Spatial method has not been given"
              /\ last'.stage = "spatial_methods"]_vars

\* the last call got past the assignment "self.bcs = ..." of line 173
Assigned ==
    last.stage \notin (BeforeInitialConditions \ {"internal_boundary_conditions"})

\* the expressions of the boundary conditions the user gave to the last call
UserExpressions ==
    {models[last.model].boundary_conditions[i].val[j].val.eqn :
        <<i, j>> \in {p \in (1..Len(models[last.model].boundary_conditions))
                               \X (1..3) :
                         p[2] <= Len(models[last.model].boundary_conditions[p[1]].val)}}

\* C23: an assignment to bcs replaces the mapping and empties the cache in
\* the same step: every object process_symbol has returned was built after
\* the last assignment that preceded the call, never under the mapping the
\* assignment replaced, and after the assignment of process_model the
\* mapping has the keys of the boundary conditions of the model.
C23_AssignmentEmptiesTheCache ==
    /\ \A i \in 1..Len(disc.lowerings.returned) :
          /\ disc.lowerings.returned[i].obj \in 1..Len(disc.lowerings.under)
          /\ disc.lowerings.under[disc.lowerings.returned[i].obj].assignments
                 = disc.lowerings.returned[i].assignments
    /\ Assigned => /\ disc.lowerings.assignments = 1
                   /\ UserKeys \subseteq Range(Keys(disc.bcs))

\* a model was discretised in which an expression of the boundary
\* conditions, lowered before the assignment, occurs again in what is
\* lowered after it
C23_Witness ==
    /\ last.stage = "done"
    /\ ~last.inplace
    /\ \E i \in 1..Len(disc.lowerings.returned) :
          /\ disc.lowerings.returned[i].symbol \in UserExpressions
          /\ disc.lowerings.returned[i].assignments = 1

\* C24: no process_symbol call of a process_model run returns an object
\* that an earlier run of the same Discretisation built, even when the two
\* models are structurally identical: set_variable_slices empties the cache
\* before the first lowering of every run.
C24_NoObjectOfAnEarlierRun ==
    /\ \A i \in 1..Len(disc.lowerings.returned) :
          disc.lowerings.returned[i].obj > disc.lowerings.earlier
    /\ \A i \in 1..Len(disc.lowerings.before.returned) :
          disc.lowerings.before.returned[i].obj > disc.lowerings.before.earlier
    /\ LaidOut =>
          \A i \in 1..Len(disc.discretised_symbols) :
              /\ Has(disc.lowerings.stored, disc.discretised_symbols[i].key)
              /\ Get(disc.lowerings.stored, disc.discretised_symbols[i].key)
                     > disc.lowerings.earlier

\* one Discretisation has discretised a model in place and then a second,
\* structurally identical model, lowering the same variable again
C24_Witness ==
    /\ Len(models) = 2
    /\ models[1].is_discretised
    /\ last.model = 2
    /\ last.stage = "done"
    /\ ~last.inplace
    /\ models[2] = OrderedModel(<<"Q", "c_n">>)
    /\ \E i \in 1..Len(disc.lowerings.returned) :
          disc.lowerings.returned[i].symbol = Variable("Q")

\* the nodes of the last call that process_symbol was given: the keys of
\* the cache and the expressions of the events of the model
C25_Nodes ==
    Range(Keys(disc.discretised_symbols))
        \cup (IF last.model = 0 THEN {}
              ELSE {models[last.model].events[i].expression :
                        i \in 1..Len(models[last.model].events)})

\* C25, as stated: every node process_symbol returns has passed its shape
\* check; where the check fails process_symbol raises, and no later call of
\* process_symbol on the same node, before the cache is emptied, returns
\* the failing node without raising.
C25_ReturnedNodesPassTheShapeCheck ==
    \A symbol \in C25_Nodes :
        (symbol.k \in {"Scalar", "Vector", "Variable", "Multiplication"})
            => \A r \in {process_symbol(disc, St(disc), symbol)} :
                   r.err = "" => test_shape(r.out) = ""

\* the boundary conditions that the model of a call gives for phi, the
\* variable in the current collector, where they name a tab; <<>> otherwise
TabConditions(model) ==
    IF Has(model.boundary_conditions, "phi")
       /\ HasTabSide(Get(model.boundary_conditions, "phi"))
    THEN Get(model.boundary_conditions, "phi")
    ELSE <<>>

\* the call got as far as the tab conditions of its boundary conditions
C26_Called(stage) ==
    stage \notin {"none", "is_discretised", "empty", "spatial_methods",
                  "set_variable_slices", "external_variables"}

\* the tabs named in bcs
NamedTabs(bcs) == {tab \in {"negative tab", "positive tab"} : Has(bcs, tab)}

\* the ends that have a condition once the tabs named in bcs are moved
EndsWithCondition(bcs) ==
    {disc.tabs[tab] : tab \in NamedTabs(bcs)}
        \cup (Range(Keys(bcs)) \cap {"left", "right"})

C27_ChildrenTileTheConcatenation ==
    LaidOut =>
        \A v \in Range(Declared) :
            isConcatenationVariable(v) =>
                /\ v \in DOMAIN disc.y_slices
                /\ Len(disc.y_slices[v]) = 1
                /\ Range(VarTable[v].children) \subseteq DOMAIN disc.y_slices
                /\ \A c \in Range(VarTable[v].children) :
                      /\ Len(disc.y_slices[c]) = _get_auxiliary_domain_repeats(v)
                      /\ \A i \in 1..Len(disc.y_slices[c]) :
                            Width(disc.y_slices[c][i]) = ChildPoints(c)
                /\ \A p, q \in SlicesOf(disc.y_slices, Range(VarTable[v].children)) :
                      p # q => Indices(disc.y_slices[p[1]][p[2]])
                                   \cap Indices(disc.y_slices[q[1]][q[2]]) = {}
                /\ UNION {Indices(disc.y_slices[p[1]][p[2]]) :
                             p \in SlicesOf(disc.y_slices, Range(VarTable[v].children))}
                       = Indices(disc.y_slices[v][1])
                /\ disc.y_slices_explicit = Some(disc.y_slices)

\* the layout holds T, whose children have one slice for each point of the
\* current collector, after another unknown
C27_Witness ==
    /\ LaidOut
    /\ "T" \in Range(Declared)
    /\ Len(Declared) = 2
    /\ Declared[2] = "T"
    /\ "T_n" \in DOMAIN disc.y_slices
    /\ Len(disc.y_slices["T_n"]) > 1
    /\ disc.y_slices["T"][1].start > 0

\* the width of the unknown v in the state vector
WidthOf(v) ==
    IF VarTable[v].domain = <<>> THEN 1 ELSE DomainSize(VarTable[v].domain, v)

\* R: the total width of the rhs unknowns of the last call
RhsWidth ==
    SumSeq([i \in 1..Len(models[last.model].rhs) |->
               WidthOf(models[last.model].rhs[i].key)])

\* C28: in the layout of process_model the slices of the rhs unknowns cover
\* [0, R) and those of the algebraic unknowns cover [R, N), R the total
\* width of the rhs unknowns, so every rhs slice lies below every algebraic
\* slice; the mass matrix of a model that passed its checks has its zero
\* block on the rows from R on.
C28_RhsBelowAlgebraic ==
    LaidOut =>
        /\ \A i \in 1..Len(models[last.model].rhs) :
              \A j \in 1..Len(models[last.model].algebraic) :
                  disc.y_slices[models[last.model].rhs[i].key][1].stop
                      <= disc.y_slices[models[last.model].algebraic[j].key][1].start
        /\ UNION {Indices(disc.y_slices[models[last.model].rhs[i].key][1]) :
                     i \in 1..Len(models[last.model].rhs)}
               = 0..(RhsWidth - 1)
        /\ UNION {Indices(disc.y_slices[models[last.model].algebraic[j].key][1]) :
                     j \in 1..Len(models[last.model].algebraic)}
               = RhsWidth..(DeclaredWidth - 1)
        /\ (last.stage = "done" /\ last.check_model /\ Declared # <<>>)
              => /\ Len(Returned.mass_matrix[1].diagonal) = DeclaredWidth
                 /\ \A row \in 1..DeclaredWidth :
                       Returned.mass_matrix[1].diagonal[row] = 0 <=> row > RhsWidth

\* a model with a differential unknown and an algebraic unknown after it
\* was discretised and passed its checks
C28_Witness ==
    /\ last.stage = "done"
    /\ last.check_model
    /\ Len(models[last.model].rhs) > 0
    /\ Len(models[last.model].algebraic) > 0
    /\ RhsWidth > 1
    /\ DeclaredWidth > RhsWidth + 1

\* C29, as stated: the outcome of process_model on a model does not depend
\* on the models the Discretisation has processed before: the call raises
\* or returns what the call on a Discretisation of its own, over the same
\* mesh and spatial methods, raises or returns.
C29_OutcomeIndependentOfEarlierRuns ==
    [][\A own \in {process_model(Discretisation(disc.tabs, disc.spatial_methods),
                                  models[last'.model], last'.inplace,
                                  last'.check_model)} :
           /\ last'.err = own.err
           /\ last'.stage = own.stage
           /\ last'.err = "" => Returned' = own.returned[1]]_vars


\* the mapping of boundary conditions that the entry of the cache under key
\* was lowered under
LoweredUnder(key) ==
    disc.lowerings.under[Get(disc.lowerings.stored, key)].bcs

\* C30, as stated: once the boundary conditions of a run are set, the synthesised
\* internal conditions included, every entry of the lowering cache was
\* lowered under the mapping of boundary conditions as it is now; the cache
\* holds no entry lowered before the mapping changed.
C30_CacheLoweredUnderTheFinalConditions ==
    Resolved =>
        \A i \in 1..Len(disc.discretised_symbols) :
            /\ Has(disc.lowerings.stored, disc.discretised_symbols[i].key)
            /\ LoweredUnder(disc.discretised_symbols[i].key) = disc.bcs


\* the variables that boundary_gradient lowers: the children of the
\* concatenations that have boundary conditions
SeamChildren ==
    UNION {{Variable(child) : child \in Range(VarTable[var].children)} :
              var \in {v \in Range(Keys(disc.bcs)) : isConcatenationVariable(v)}}

\* C30, amended: once the boundary conditions of a run are set, every entry
\* of the lowering cache was lowered after the assignment to bcs of this
\* run.  The changes made to the mapping in place leave the cache as it is:
\* an entry lowered under a mapping with other keys than the mapping has now
\* is a child of a concatenation, lowered by set_internal_boundary_conditions
\* before it added the internal conditions to the mapping.
C30_CacheLoweredSinceTheAssignment ==
    Resolved =>
        \A i \in 1..Len(disc.discretised_symbols) :
            /\ Has(disc.lowerings.stored, disc.discretised_symbols[i].key)
            /\ disc.lowerings.under[Get(disc.lowerings.stored,
                                        disc.discretised_symbols[i].key)].assignments
                   = disc.lowerings.assignments
            /\ Keys(LoweredUnder(disc.discretised_symbols[i].key)) # Keys(disc.bcs)
                   => /\ disc.discretised_symbols[i].key \in SeamChildren
                      /\ Range(Keys(LoweredUnder(disc.discretised_symbols[i].key)))
                             \subseteq Range(Keys(disc.bcs))

\* a model was discretised whose cache still holds a child of a
\* concatenation, lowered before the internal conditions were added
C30_Witness ==
    /\ last.stage = "done"
    /\ \E i \in 1..Len(disc.discretised_symbols) :
          /\ Has(disc.lowerings.stored, disc.discretised_symbols[i].key)
          /\ Keys(LoweredUnder(disc.discretised_symbols[i].key)) # Keys(disc.bcs)

====
